---- MODULE Spec2Model ----
(***************************************************************************)
(* A model of the connection manager of MFCAuto's Client                   *)
(* (src/src/main/Client.ts): connect / disconnect / reconnect with         *)
(* back-off, the sockets and timers a client owns, and the promises its    *)
(* public operations return.                                               *)
(*                                                                         *)
(* Execution model: node.js.  Every action below is one run-to-completion  *)
(* piece of JavaScript: a public method called by the application, a       *)
(* socket event listener, a timer callback, or a promise continuation.     *)
(* Promise continuations (microtasks) run before any further socket or     *)
(* timer event, but application code that is still running synchronously   *)
(* may call further public methods first.                                  *)
(*                                                                         *)
(* Seconds are counted in units of 1/Scale s, so that the back-off         *)
(* multiplications by 1.5 are exact integer arithmetic.                    *)
(***************************************************************************)
EXTENDS Integers, Sequences, FiniteSets, TLC

\* ---- bounds of the model
NumClients == 2
MaxSockets == 2
MaxPending == 1
MaxWaiters == 1
MaxSocketsMulti == 1
NumModels == 1
MaxQueries == 2

Clients == 1 .. NumClients
SockIds == 1 .. MaxSockets
ModelIds == 1 .. NumModels

\* ---- program constants (Client.ts:73-76)
initialReconnectSeconds == 5
reconnectBackOffNum == 3
reconnectBackOffDen == 2
maximumReconnectSeconds == 2400
\* the first query id of queryUser (Client.ts:1209)
firstUserQueryId == 20
QueryIds == firstUserQueryId .. (firstUserQueryId + MaxQueries - 1)

\* the packets joinRoom listens for: CMESG, JOINCHAN with nArg2 JOIN, PART or
\* another value, ZBAN, BANCHAN
RoomPackets == {"CMESG", "JOINCHAN_JOIN", "JOINCHAN_PART", "JOINCHAN_OTHER",
                "ZBAN", "BANCHAN"}

Scale == 2 ^ 16
Secs(n) == n * Scale

IDLE == "IDLE"
PENDING == "PENDING"
ACTIVE == "ACTIVE"
ClientState == {IDLE, PENDING, ACTIVE}

\* who waits in ensureConnected: the promise of connect() called by the
\* application from IDLE, of connect() called by the reconnect timer, and of
\* connect() called while PENDING
WaiterKinds == {"connect", "reconn", "wait"}

\* a pending _ensureServerConfigIsLoaded() continuation: the doLogin its
\* closure captured, and whether it is a microtask (the configuration was
\* already loaded) or waits for the HTTP response
PendKinds == BOOLEAN \X BOOLEAN

VARIABLES
  useWebSockets,      \* _options.useWebSockets, per client
  connectionTimeout,  \* _options.connectionTimeout is set, per client
  state,              \* _state
  choseToLogIn,       \* _choseToLogIn
  manualDisconnect,   \* _manualDisconnect
  client,             \* _client: 0 (undefined) or the id of a socket
  keepAliveTimer,     \* _keepAliveTimer !== undefined
  intervals,          \* number of live setInterval timers calling _keepAlive
  reconnectTimer,     \* _reconnectTimer: 0 (undefined) or the delay it was armed with
  serverConfig,       \* _serverConfig !== undefined
  sock,               \* the sockets a client has created: [st, doLogin]
  pend,               \* _ensureServerConfigIsLoaded() calls not yet continued
  pendCatch,          \* queued .catch continuations of the reconnect timer's connect()
  waiters,            \* pending ensureConnected() promises, by kind
  loginTimers,        \* armed _disconnectIfNo timers, by the socket they were armed for
  discWaiters,        \* disconnect() promises waiting for CLIENT_DISCONNECTED
  currentReconnectSeconds, \* static Client._currentReconnectSeconds
  connectedClientCount,    \* static Client._connectedClientCount
  connectPromise,     \* the promise of the application's latest connect() from IDLE
  sockLimit,          \* how many sockets a client may create in this specification
  userChoice,         \* the doLogin of the application's latest connect() from IDLE
  fresh,              \* the client became ACTIVE and has armed no reconnect timer since
  quiesced,           \* "no", or in which state the disconnect() was called whose promise
                      \* has resolved, connect() not having been called since
  joinListeners,      \* model ids whose joinRoom result handler is registered
  joinPending,        \* model ids whose joinRoom promise is pending
  queryListeners,     \* query ids whose queryUser handler is registered
  queryPending,       \* query ids whose queryUser promise is pending
  userQueryId,        \* static Client._userQueryId: 0 (undefined) or the next id
  completedModels,    \* _completedModels
  completedTags,      \* _completedTags
  modelsLoaded,       \* the sockets whose packet made the client emit CLIENT_MODELSLOADED
  modelsListeners,    \* once-listeners of CLIENT_MODELSLOADED set by connectAndWaitForModels
  modelsPromise,      \* the promise of the latest connectAndWaitForModels()
  modelsConnect,      \* "none", or the kind of the ensureConnected promise connectAndWaitForModels waits on
  ensure,             \* the application's latest ensureConnected(): its promise, listeners and timer
  queryIds,           \* every queryId that queryUser has assigned in the process
  streamBuffer,       \* the bytes read from the TCP socket and not yet consumed
  streamPosition,     \* where the next binary frame starts in streamBuffer
  streamWebSocketBuffer, \* the characters read from the WebSocket and not yet consumed
  wire,               \* ghost: what the server sent and the socket has not yet delivered
  sentFrames,         \* ghost: the frames the server sent on the connection
  dispatched,         \* ghost: the packets handed to _packetReceived
  sessionId,          \* sessionId: the session id the server assigned at login
  knownModels,        \* static Model.knownModels: the registry, uid -> model
  extData,            \* the EXTDATA fetches in flight, per client
  joinIds,            \* joinRoom's roomId and modelId of the last call, per client
  camYou,             \* _options.camYou, per client
  username,           \* username: the name of the next LOGIN payload, per client
  listCall,           \* a call of processListData: its argument and its result
  out                 \* what the last step emitted, sent and threw, in order

vars == <<useWebSockets, connectionTimeout, state, choseToLogIn, manualDisconnect,
          client, keepAliveTimer, intervals, reconnectTimer, serverConfig, sock,
          pend, pendCatch, waiters, loginTimers, discWaiters,
          currentReconnectSeconds, connectedClientCount, connectPromise,
          userChoice, fresh, quiesced, joinListeners, joinPending,
          queryListeners, queryPending, userQueryId, completedModels,
          completedTags,
          modelsLoaded,
          modelsListeners,
          modelsPromise,
          modelsConnect,
          ensure,
          queryIds,
          streamBuffer,
          streamPosition,
          streamWebSocketBuffer,
          wire,
          sentFrames,
          dispatched,
          sessionId,
          knownModels,
          extData,
          joinIds,
          camYou,
          username,
          listCall,
          sockLimit, out>>

\* The whole state as one record, so that a handler can be written as the
\* composition of the functions it calls.
Cur ==
  [useWebSockets |-> useWebSockets, connectionTimeout |-> connectionTimeout,
   state |-> state, choseToLogIn |-> choseToLogIn,
   manualDisconnect |-> manualDisconnect, client |-> client,
   keepAliveTimer |-> keepAliveTimer, intervals |-> intervals,
   reconnectTimer |-> reconnectTimer, serverConfig |-> serverConfig,
   sock |-> sock, pend |-> pend, pendCatch |-> pendCatch, waiters |-> waiters,
   loginTimers |-> loginTimers, discWaiters |-> discWaiters,
   currentReconnectSeconds |-> currentReconnectSeconds,
   connectedClientCount |-> connectedClientCount,
   connectPromise |-> connectPromise, quiesced |-> quiesced,
   userChoice |-> userChoice, fresh |-> fresh,
   joinListeners |-> joinListeners, joinPending |-> joinPending,
   queryListeners |-> queryListeners, queryPending |-> queryPending,
   userQueryId |-> userQueryId,
   completedModels |-> completedModels,
   completedTags |-> completedTags,
   modelsLoaded |-> modelsLoaded,
   modelsListeners |-> modelsListeners,
   modelsPromise |-> modelsPromise,
   modelsConnect |-> modelsConnect,
   ensure |-> ensure,
   queryIds |-> queryIds,
   streamBuffer |-> streamBuffer,
   streamPosition |-> streamPosition,
   streamWebSocketBuffer |-> streamWebSocketBuffer,
   wire |-> wire,
   sentFrames |-> sentFrames,
   dispatched |-> dispatched,
   sessionId |-> sessionId,
   knownModels |-> knownModels,
   extData |-> extData,
   joinIds |-> joinIds,
   camYou |-> camYou,
   username |-> username,
   listCall |-> listCall,
   sockLimit |-> sockLimit, out |-> <<>>]

Commit(w) ==
  /\ useWebSockets' = w.useWebSockets
  /\ connectionTimeout' = w.connectionTimeout
  /\ state' = w.state
  /\ choseToLogIn' = w.choseToLogIn
  /\ manualDisconnect' = w.manualDisconnect
  /\ client' = w.client
  /\ keepAliveTimer' = w.keepAliveTimer
  /\ intervals' = w.intervals
  /\ reconnectTimer' = w.reconnectTimer
  /\ serverConfig' = w.serverConfig
  /\ sock' = w.sock
  /\ pend' = w.pend
  /\ pendCatch' = w.pendCatch
  /\ waiters' = w.waiters
  /\ loginTimers' = w.loginTimers
  /\ discWaiters' = w.discWaiters
  /\ currentReconnectSeconds' = w.currentReconnectSeconds
  /\ connectedClientCount' = w.connectedClientCount
  /\ connectPromise' = w.connectPromise
  /\ quiesced' = w.quiesced
  /\ userChoice' = w.userChoice
  /\ fresh' = w.fresh
  /\ joinListeners' = w.joinListeners
  /\ joinPending' = w.joinPending
  /\ queryListeners' = w.queryListeners
  /\ queryPending' = w.queryPending
  /\ userQueryId' = w.userQueryId
  /\ listCall' = w.listCall
  /\ username' = w.username
  /\ camYou' = w.camYou
  /\ joinIds' = w.joinIds
  /\ extData' = w.extData
  /\ knownModels' = w.knownModels
  /\ sessionId' = w.sessionId
  /\ dispatched' = w.dispatched
  /\ sentFrames' = w.sentFrames
  /\ wire' = w.wire
  /\ streamWebSocketBuffer' = w.streamWebSocketBuffer
  /\ streamPosition' = w.streamPosition
  /\ streamBuffer' = w.streamBuffer
  /\ queryIds' = w.queryIds
  /\ ensure' = w.ensure
  /\ modelsConnect' = w.modelsConnect
  /\ modelsPromise' = w.modelsPromise
  /\ modelsListeners' = w.modelsListeners
  /\ modelsLoaded' = w.modelsLoaded
  /\ completedTags' = w.completedTags
  /\ completedModels' = w.completedModels
  /\ sockLimit' = w.sockLimit
  /\ out' = w.out

\* ---------------------------------------------------------------- helpers

Tok(w, ev, c) == [ev |-> ev, c |-> c, rs |-> w.currentReconnectSeconds]
Say(w, ev, c) == [w EXCEPT !.out = Append(@, Tok(w, ev, c))]
Throw(w, c) == Say(w, "THROW", c)
Threw(w) == \E i \in 1 .. Len(w.out) : w.out[i].ev = "THROW"

\* the step that led to this state emitted, sent or called ev for client c
Did(o, ev, c) == \E i \in 1 .. Len(o) : o[i].ev = ev /\ o[i].c = c

Inc(n, max) == IF n < max THEN n + 1 ELSE n
NumPend(w, c) == w.pend[c][<<TRUE, TRUE>>] + w.pend[c][<<TRUE, FALSE>>]
                 + w.pend[c][<<FALSE, TRUE>>] + w.pend[c][<<FALSE, FALSE>>]
FreeSocks(w, c) == {s \in 1 .. w.sockLimit : w.sock[c][s].st = "none"}
NewSock(w, c) == CHOOSE s \in FreeSocks(w, c) : \A t \in FreeSocks(w, c) : s <= t

\* a promise continuation is queued: no socket or timer event runs before it
MicroPending ==
  \E c \in Clients :
    \/ pendCatch[c] > 0
    \/ pend[c][<<TRUE, TRUE>>] + pend[c][<<FALSE, TRUE>>] > 0

\* ------------------------------------------------------- event emission
\* The listeners on the three CLIENT_* events are the library's own: the
\* resolver / rejecter of every pending ensureConnected, the stopper of every
\* armed _disconnectIfNo timer, and the resolver disconnect() registers.

\* the application's ensureConnected(): no call yet
NoEnsure ==
  [promise |-> "none", resolver |-> FALSE, rejecter |-> FALSE, timer |-> FALSE,
   settles |-> 0]

\* resolve() or reject() of the promise of the application's ensureConnected()
EnsureSettle(e, how) ==
  [e EXCEPT !.promise = IF @ = "pending" THEN how ELSE @,
            !.settles = Inc(@, 2)]

\* the resolver of ensureConnected, a once-listener of CLIENT_CONNECTED
EnsureResolver(w, c) ==
  IF ~w.ensure[c].resolver THEN w
  ELSE [w EXCEPT !.ensure[c] =
          EnsureSettle([@ EXCEPT !.resolver = FALSE, !.rejecter = FALSE,
                                 !.timer = FALSE], "resolved")]

\* the rejecter of ensureConnected, a once-listener of CLIENT_MANUAL_DISCONNECT
EnsureRejecter(w, c) ==
  IF ~w.ensure[c].rejecter THEN w
  ELSE [w EXCEPT !.ensure[c] =
          EnsureSettle([@ EXCEPT !.rejecter = FALSE, !.resolver = FALSE,
                                 !.timer = FALSE], "rejected")]

\* the connect(true) promise of connectAndWaitForModels settles: a rejection
\* rejects the promise of connectAndWaitForModels, unless that is settled
ModelsConnectSettles(w, c, rejected) ==
  IF w.modelsConnect[c] = "none" THEN w
  ELSE [w EXCEPT !.modelsConnect[c] = "none",
                 !.modelsPromise[c] =
                    IF rejected /\ @ = "pending" THEN "rejected" ELSE @]

EmitConnected(w, c) ==
  LET w1 == Say(w, "CLIENT_CONNECTED", c)
  IN EnsureResolver(
       ModelsConnectSettles(
         [w1 EXCEPT !.waiters[c] = [k \in WaiterKinds |-> 0],
                    !.connectPromise[c] =
                       IF w.waiters[c]["connect"] > 0 THEN "resolved" ELSE @],
         c, FALSE),
       c)

\* as EmitManualDisconnect, but with no rejecter of ensureConnected listening
EmitManualDisconnectUnheard(w, c) ==
  [Say(w, "CLIENT_MANUAL_DISCONNECT", c) EXCEPT !.loginTimers[c] = {}]

EmitManualDisconnect(w, c) ==
  LET w1 == Say(w, "CLIENT_MANUAL_DISCONNECT", c)
  IN EnsureRejecter(
       ModelsConnectSettles(
         [w1 EXCEPT !.waiters[c] = [k \in WaiterKinds |-> 0],
                    !.connectPromise[c] =
                       IF w.waiters[c]["connect"] > 0 THEN "rejected" ELSE @,
                    !.pendCatch[c] =
                       IF w.waiters[c]["reconn"] > 0 THEN Inc(@, MaxWaiters) ELSE @,
                    !.loginTimers[c] = {}],
         c, TRUE),
       c)

EmitDisconnected(w, c) ==
  LET w1 == Say(w, "CLIENT_DISCONNECTED", c)
  IN [w1 EXCEPT !.loginTimers[c] = {},
                !.discWaiters[c] = 0,
                !.quiesced[c] = IF w.discWaiters[c] > 0 THEN "ACTIVE" ELSE @]

\* ------------------------------------------------------------ the socket
\* st: "none" (not created), "connecting", "aborting" (close requested while
\* connecting), "open", "closing" (close requested while open), "halfdead"
\* (it emitted 'error' or 'end'; 'close' follows), "closed".

CloseSocket(w, c) ==
  IF w.client[c] = 0 THEN w
  ELSE LET s == w.client[c]
           st == w.sock[c][s].st
       IN [w EXCEPT !.sock[c][s].st =
                      CASE st = "open" -> "closing"
                        [] st = "connecting" -> "aborting"
                        [] OTHER -> st]

\* TxCmd throws on a disconnected client; WebSocket.send throws unless the
\* socket is open; net.Socket.write does not throw.
CanSend(w, c) ==
  /\ w.client[c] # 0
  /\ w.useWebSockets[c] => w.sock[c][w.client[c]].st = "open"

TxCmd(w, c, cmd) ==
  IF CanSend(w, c) THEN Say(w, cmd, c) ELSE Throw(w, c)

\* ------------------------------------------------------------ _disconnected

BackOff(w) ==
  IF w.currentReconnectSeconds < Secs(maximumReconnectSeconds)
  THEN (w.currentReconnectSeconds * reconnectBackOffNum) \div reconnectBackOffDen
  ELSE w.currentReconnectSeconds

ClearKeepAlive(w, c) ==
  [w EXCEPT !.intervals[c] = IF w.keepAliveTimer[c] THEN @ - 1 ELSE @,
            !.keepAliveTimer[c] = FALSE]

ArmReconnect(w, c) ==
  [Say(w, "ARM", c) EXCEPT !.state[c] = PENDING,
                           !.reconnectTimer[c] = w.currentReconnectSeconds,
                           !.currentReconnectSeconds = BackOff(w),
                           !.fresh[c] = FALSE]

\* the name a server assigns to a client that logs in as guest: it starts
\* with "Guest"; every client of the model has the password "guest"
GuestName == "Guest1"

ModelReset(w, c) ==
  IF w.connectedClientCount = 0
  THEN [Say(w, "MODEL_RESET", c) EXCEPT !.knownModels = <<>>]
  ELSE w

\* as Disconnected, but a manual disconnect leaves the flag set
DisconnectedKeepsFlag(w0, c) ==
  LET w == Say(w0, "_disconnected", c)
  IN
  IF w.state[c] = IDLE THEN w
  ELSE
    LET w1 == [ClearKeepAlive(w, c) EXCEPT
                 !.completedModels[c] = FALSE,
                 !.completedTags[c] = FALSE,
                 !.client[c] = 0,
                 !.connectedClientCount =
                    IF w.choseToLogIn[c] /\ @ > 0 THEN @ - 1 ELSE @,
                 !.username[c] = IF @ = GuestName THEN "guest" ELSE @]
        w2 == IF ~w1.manualDisconnect[c]
              THEN ArmReconnect(w1, c)
              ELSE [w1 EXCEPT !.state[c] = IDLE]
        w3 == EmitDisconnected(w2, c)
    IN ModelReset(w3, c)

Disconnected(w0, c) ==
  LET w == Say(w0, "_disconnected", c)
  IN
  IF w.state[c] = IDLE THEN w
  ELSE
    LET w1 == [ClearKeepAlive(w, c) EXCEPT
                 !.completedModels[c] = FALSE,
                 !.completedTags[c] = FALSE,
                 !.client[c] = 0,
                 !.connectedClientCount =
                    IF w.choseToLogIn[c] /\ @ > 0 THEN @ - 1 ELSE @,
                 !.username[c] = IF @ = GuestName THEN "guest" ELSE @]
        w2 == IF ~w1.manualDisconnect[c]
              THEN ArmReconnect(w1, c)
              ELSE [w1 EXCEPT !.state[c] = IDLE, !.manualDisconnect[c] = FALSE]
        w3 == EmitDisconnected(w2, c)
    IN ModelReset(w3, c)

\* ------------------------------------------------------------ connect

\* ensureConnected called while PENDING with a timeout other than -1
EnsureConnectedWait(w, c, kind) ==
  [w EXCEPT !.waiters[c][kind] = Inc(@, MaxWaiters)]

\* the body of connect() when the client is IDLE, up to the call of
\* _ensureServerConfigIsLoaded
ConnectFromIdle(w, c, doLogin, kind) ==
  LET w1 == [w EXCEPT !.choseToLogIn[c] = doLogin, !.state[c] = PENDING,
                      !.streamBuffer[c] = <<>>, !.streamPosition[c] = 0,
                      !.streamWebSocketBuffer[c] = <<>>]
  IN EnsureConnectedWait(w1, c, kind)

AwaitServerConfig(w, c, doLogin) ==
  [w EXCEPT !.pend[c][<<doLogin, w.serverConfig[c]>>] = @ + 1]

\* the continuation of _ensureServerConfigIsLoaded in connect(): create the
\* socket, register its listeners, start the keepalive interval
Dial(w, c, doLogin) ==
  LET s == NewSock(w, c)
  IN [w EXCEPT !.sock[c][s] = [st |-> "connecting", doLogin |-> doLogin],
               !.client[c] = s,
               !.keepAliveTimer[c] = TRUE,
               !.intervals[c] = @ + 1]

NoSock == [st |-> "none", doLogin |-> FALSE]

\* processListData was not called
NoResult == [kind |-> "none", items |-> <<>>]
NoCall == [rdata |-> NoResult, result |-> NoResult]

\* no joinRoom call was made yet
NoJoin == [id |-> -1, roomId |-> -1, modelId |-> -1]

\* the state after construction, whatever the options
Constructed ==
  /\ state = [c \in Clients |-> IDLE]
  /\ choseToLogIn = [c \in Clients |-> FALSE]
  /\ manualDisconnect = [c \in Clients |-> FALSE]
  /\ client = [c \in Clients |-> 0]
  /\ keepAliveTimer = [c \in Clients |-> FALSE]
  /\ intervals = [c \in Clients |-> 0]
  /\ reconnectTimer = [c \in Clients |-> 0]
  /\ serverConfig = [c \in Clients |-> FALSE]
  /\ sock = [c \in Clients |-> [s \in SockIds |-> NoSock]]
  /\ pend = [c \in Clients |-> [k \in PendKinds |-> 0]]
  /\ pendCatch = [c \in Clients |-> 0]
  /\ waiters = [c \in Clients |-> [k \in WaiterKinds |-> 0]]
  /\ loginTimers = [c \in Clients |-> {}]
  /\ discWaiters = [c \in Clients |-> 0]
  /\ currentReconnectSeconds = Secs(initialReconnectSeconds)
  /\ connectedClientCount = 0
  /\ connectPromise = [c \in Clients |-> "none"]
  /\ quiesced = [c \in Clients |-> "no"]
  /\ userChoice = [c \in Clients |-> FALSE]
  /\ fresh = [c \in Clients |-> FALSE]
  /\ joinListeners = [c \in Clients |-> {}]
  /\ joinPending = [c \in Clients |-> {}]
  /\ queryListeners = [c \in Clients |-> {}]
  /\ queryPending = [c \in Clients |-> {}]
  /\ userQueryId = 0
  /\ username = [c \in Clients |-> "guest"]
  /\ joinIds = [c \in Clients |-> NoJoin]
  /\ extData = [c \in Clients |-> <<>>]
  /\ knownModels = <<>>
  /\ sessionId = [c \in Clients |-> 0]
  /\ dispatched = [c \in Clients |-> <<>>]
  /\ sentFrames = [c \in Clients |-> <<>>]
  /\ wire = [c \in Clients |-> <<>>]
  /\ streamWebSocketBuffer = [c \in Clients |-> <<>>]
  /\ streamPosition = [c \in Clients |-> 0]
  /\ streamBuffer = [c \in Clients |-> <<>>]
  /\ queryIds = {}
  /\ ensure = [c \in Clients |-> NoEnsure]
  /\ modelsConnect = [c \in Clients |-> "none"]
  /\ modelsPromise = [c \in Clients |-> "none"]
  /\ modelsListeners = [c \in Clients |-> 0]
  /\ modelsLoaded = [c \in Clients |-> {}]
  /\ completedTags = [c \in Clients |-> FALSE]
  /\ completedModels = [c \in Clients |-> FALSE]
  /\ out = <<>>

\* one client in the process, with any options
Init ==
  /\ useWebSockets \in [Clients -> BOOLEAN]
  /\ connectionTimeout \in [Clients -> BOOLEAN]
  /\ \A c \in Clients \ {1} : useWebSockets[c] /\ ~connectionTimeout[c]
  /\ sockLimit = MaxSockets
  /\ camYou = [c \in Clients |-> FALSE]
  /\ listCall = NoCall
  /\ Constructed

\* several clients in the process, each with the default options
InitMulti ==
  /\ useWebSockets = [c \in Clients |-> TRUE]
  /\ connectionTimeout = [c \in Clients |-> FALSE]
  /\ sockLimit = MaxSocketsMulti
  /\ camYou = [c \in Clients |-> FALSE]
  /\ listCall = NoCall
  /\ Constructed

\* ------------------------------------------------- the application's calls

\* as ConnectCall, but a PENDING client starts a connection as an IDLE one does
ConnectCallRedial(w, c, doLogin) ==
  LET w0 == [Say(w, "connect()", c) EXCEPT !.quiesced[c] = "no"]
  IN IF w.state[c] \in {IDLE, PENDING}
     THEN AwaitServerConfig(
            [ConnectFromIdle(w0, c, doLogin, "connect")
               EXCEPT !.connectPromise[c] = "pending",
                      !.userChoice[c] = doLogin],
            c, doLogin)
     ELSE w0

\* connect(doLogin) called by the application
ConnectCall(w, c, doLogin) ==
  LET w0 == [Say(w, "connect()", c) EXCEPT !.quiesced[c] = "no"]
  IN CASE w.state[c] = PENDING -> EnsureConnectedWait(w0, c, "wait")
       [] w.state[c] = IDLE ->
            AwaitServerConfig(
              [ConnectFromIdle(w0, c, doLogin, "connect")
                 EXCEPT !.connectPromise[c] = "pending",
                        !.userChoice[c] = doLogin],
              c, doLogin)
       [] OTHER -> w0

Connect(c, doLogin) ==
  /\ state[c] = IDLE => /\ NumPend(Cur, c) < MaxPending
                        /\ Cardinality(FreeSocks(Cur, c)) > NumPend(Cur, c)
  /\ state[c] = PENDING => waiters[c]["wait"] < MaxWaiters
  /\ Commit(ConnectCall(Cur, c, doLogin))

\* as DisconnectCall, but CLIENT_MANUAL_DISCONNECT is not emitted
DisconnectCallSilent(w, c) ==
  IF w.state[c] = IDLE
  THEN [Say(w, "disconnect()", c) EXCEPT !.quiesced[c] = IDLE]
  ELSE
    LET w2 == [ClearKeepAlive(Say(w, "disconnect()", c), c)
                 EXCEPT !.manualDisconnect[c] = TRUE, !.reconnectTimer[c] = 0]
        w3 == IF w2.state[c] = ACTIVE
              THEN [w2 EXCEPT !.discWaiters[c] = Inc(@, MaxWaiters)]
              ELSE w2
        w4 == CloseSocket(w3, c)
    IN IF w4.state[c] # ACTIVE
       THEN [w4 EXCEPT !.state[c] = IDLE, !.manualDisconnect[c] = FALSE,
                       !.quiesced[c] = PENDING]
       ELSE w4

\* disconnect() called by the application
DisconnectCall(w, c) ==
  IF w.state[c] = IDLE
  THEN [Say(w, "disconnect()", c) EXCEPT !.quiesced[c] = IDLE]
  ELSE
    LET w1 == EmitManualDisconnect(Say(w, "disconnect()", c), c)
        w2 == [ClearKeepAlive(w1, c) EXCEPT !.manualDisconnect[c] = TRUE,
                                            !.reconnectTimer[c] = 0]
        w3 == IF w2.state[c] = ACTIVE
              THEN [w2 EXCEPT !.discWaiters[c] = Inc(@, MaxWaiters)]
              ELSE w2
        w4 == CloseSocket(w3, c)
    IN IF w4.state[c] # ACTIVE
       THEN [w4 EXCEPT !.state[c] = IDLE, !.manualDisconnect[c] = FALSE,
                       !.quiesced[c] = PENDING]
       ELSE w4

Disconnect(c) ==
  /\ state[c] \in ClientState
  /\ Commit(DisconnectCall(Cur, c))

\* ------------------------------------------------- promise continuations

\* the .then of _ensureServerConfigIsLoaded, the configuration being loaded
MicroDial(c, doLogin) ==
  /\ pend[c][<<doLogin, TRUE>>] > 0
  /\ FreeSocks(Cur, c) # {}
  /\ Commit(Dial([Cur EXCEPT !.pend[c][<<doLogin, TRUE>>] = @ - 1], c, doLogin))

\* the .catch of the connect() the reconnect timer called, after disconnect()
\* rejected it
MicroCatch(c) ==
  /\ pendCatch[c] > 0
  /\ Commit(Disconnected([Cur EXCEPT !.pendCatch[c] = @ - 1], c))

\* ------------------------------------------------- HTTP, timers

\* the HTTP request for serverconfig.js completes
HttpDone(c, doLogin, ok) ==
  /\ ~MicroPending
  /\ pend[c][<<doLogin, FALSE>>] > 0
  /\ ok => FreeSocks(Cur, c) # {}
  /\ LET w1 == [Cur EXCEPT !.pend[c][<<doLogin, FALSE>>] = @ - 1]
     IN Commit(IF ok
               THEN Dial([w1 EXCEPT !.serverConfig[c] = TRUE], c, doLogin)
               ELSE Disconnected(w1, c))

\* the callback of the reconnect timer armed by _disconnected
ReconnectCallback(w, c) ==
  LET w1 == [w EXCEPT !.state[c] = IDLE]
      w2 == ConnectFromIdle(w1, c, w1.choseToLogIn[c], "reconn")
      w3 == [w2 EXCEPT !.reconnectTimer[c] = 0]
  IN IF w3.serverConfig[c]
     THEN Dial(w3, c, w1.choseToLogIn[c])
     ELSE AwaitServerConfig(w3, c, w1.choseToLogIn[c])

ReconnectFire(c) ==
  /\ ~MicroPending
  /\ reconnectTimer[c] # 0
  /\ NumPend(Cur, c) < MaxPending
  /\ Cardinality(FreeSocks(Cur, c)) > NumPend(Cur, c)
  /\ Commit(ReconnectCallback(Cur, c))

\* the timer of a pending ensureConnected(connectionTimeout) expires
WaiterTimeout(c, kind) ==
  /\ ~MicroPending
  /\ connectionTimeout[c]
  /\ kind \in {"connect", "reconn"}
  /\ waiters[c][kind] > 0
  /\ LET w1 == [Cur EXCEPT !.waiters[c][kind] = @ - 1]
     IN Commit(IF kind = "connect"
               THEN IF w1.modelsConnect[c] = "connect"
                    THEN ModelsConnectSettles(
                           [w1 EXCEPT !.connectPromise[c] = "rejected"], c, TRUE)
                    ELSE [w1 EXCEPT !.connectPromise[c] = "rejected"]
               ELSE Disconnected(w1, c))

\* the callback of the timer armed by _disconnectIfNo(LOGIN, loginTimeout)
LoginTimeout(w, c) == Disconnected(CloseSocket(w, c), c)

LoginTimerFire(c, s) ==
  /\ ~MicroPending
  /\ s \in loginTimers[c]
  /\ Commit(LoginTimeout([Cur EXCEPT !.loginTimers[c] = @ \ {s}], c))

\* _keepAlive; tripped: one of the two silence thresholds is exceeded
KeepAlive(w, c, tripped) ==
  IF w.state[c] # ACTIVE THEN w
  ELSE IF tripped
       THEN IF w.client[c] # 0 THEN Disconnected(CloseSocket(w, c), c) ELSE w
       ELSE TxCmd(w, c, "TX_NULL")

\* the condition of _keepAlive; silent: lastPacketDuration > silenceTimeout,
\* stateSilent: lastStatePacketDuration > stateSilenceTimeout
Tripped(w, c, silent, stateSilent) ==
  silent \/ (w.choseToLogIn[c] /\ stateSilent)

KeepAliveTick(c, silent, stateSilent) ==
  /\ ~MicroPending
  /\ intervals[c] > 0
  /\ Commit(KeepAlive(Cur, c, Tripped(Cur, c, silent, stateSilent)))

\* ------------------------------------------------- socket events

\* login(): count the client as logged in and send LOGIN
Login(w, c) ==
  TxCmd([w EXCEPT !.connectedClientCount = @ + 1, !.choseToLogIn[c] = TRUE],
        c, "TX_LOGIN")

\* _disconnectIfNo(LOGIN, loginTimeout) then login()
LoginWithTimeout(w, c, s) ==
  IF w.state[c] = IDLE THEN Throw(w, c)
  ELSE Login([w EXCEPT !.loginTimers[c] = @ \cup {s}], c)

\* as BecomeActive, but CLIENT_CONNECTED is emitted before the delay is reset
BecomeActiveEmitFirst(w, c) ==
  [EmitConnected([w EXCEPT !.state[c] = ACTIVE, !.fresh[c] = TRUE], c)
     EXCEPT !.currentReconnectSeconds = Secs(initialReconnectSeconds)]

BecomeActive(w, c) ==
  EmitConnected(
    [w EXCEPT !.state[c] = ACTIVE,
              !.currentReconnectSeconds = Secs(initialReconnectSeconds),
              !.fresh[c] = TRUE],
    c)

\* the 'connect' listener of net.connect / the 'open' listener of the WebSocket
OnOpen(w, c, s) ==
  LET w1 == IF w.useWebSockets[c] THEN TxCmd(w, c, "TX_HELLO") ELSE w
      w2 == IF ~Threw(w1) /\ w.sock[c][s].doLogin
            THEN LoginWithTimeout(w1, c, s) ELSE w1
  IN IF Threw(w2) THEN w2 ELSE BecomeActive(w2, c)

SockOpen(c, s) ==
  /\ ~MicroPending
  /\ \/ sock[c][s].st = "connecting"
     \/ sock[c][s].st = "aborting" /\ ~useWebSockets[c]
  /\ Commit(OnOpen(
       [Cur EXCEPT !.sock[c][s].st =
                      IF sock[c][s].st = "connecting" THEN "open" ELSE "closing"],
       c, s))

\* the socket's 'error' listener
SockError(c, s) ==
  /\ ~MicroPending
  /\ sock[c][s].st \in {"connecting", "aborting", "open", "closing"}
  /\ Commit(Disconnected([Cur EXCEPT !.sock[c][s].st = "halfdead"], c))

\* the net.Socket's 'end' listener
SockEnd(c, s) ==
  /\ ~MicroPending
  /\ ~useWebSockets[c]
  /\ sock[c][s].st \in {"open", "closing"}
  /\ Commit(Disconnected([Cur EXCEPT !.sock[c][s].st = "halfdead"], c))

\* the socket's 'close' listener
SockClose(c, s) ==
  /\ ~MicroPending
  /\ sock[c][s].st \in {"open", "closing", "halfdead"}
  /\ Commit(Disconnected([Cur EXCEPT !.sock[c][s].st = "closed"], c))

\* ------------------------------------------------- packets

\* _packetReceived for a LOGIN packet; ok: its nArg1 is 0
PacketLogin(w, c, ok) ==
  IF ~ok THEN Throw(Say(w, "LOGIN_REJECTED", c), c)
  ELSE
    LET w1 == [Say(w, "LOGIN", c) EXCEPT !.loginTimers[c] = {}]
        w2 == Say(w1, "ANY", c)
    IN IF w2.state[c] = ACTIVE /\ CanSend(w2, c)
       THEN Say(w2, "TX_ROOMDATA", c) ELSE w2

RecvLogin(c, s, ok) ==
  /\ ~MicroPending
  /\ sock[c][s].st \in {"open", "closing"}
  /\ Commit(PacketLogin(Cur, c, ok))

Step(c) ==
  \/ \E d \in BOOLEAN : Connect(c, d)
  \/ Disconnect(c)
  \/ \E d \in BOOLEAN : MicroDial(c, d)
  \/ MicroCatch(c)
  \/ \E d, ok \in BOOLEAN : HttpDone(c, d, ok)
  \/ ReconnectFire(c)
  \/ \E k \in WaiterKinds : WaiterTimeout(c, k)
  \/ \E s \in SockIds : LoginTimerFire(c, s)
  \/ \E silent, stateSilent \in BOOLEAN : KeepAliveTick(c, silent, stateSilent)
  \/ \E s \in SockIds : SockOpen(c, s)
  \/ \E s \in SockIds : SockError(c, s)
  \/ \E s \in SockIds : SockEnd(c, s)
  \/ \E s \in SockIds : SockClose(c, s)
  \/ \E s \in SockIds, ok \in BOOLEAN : RecvLogin(c, s, ok)

Next == Step(1)

Spec == Init /\ [][Next]_vars

\* ------------------------------------------------- joinRoom, queryUser

\* joinRoom(id): the four listeners are registered, then TxCmd is called; a
\* throw of TxCmd inside the promise's executor rejects the promise
JoinRoomCall(w, c, id) ==
  LET w1 == [Say(w, "joinRoom()", c) EXCEPT !.joinListeners[c] = @ \cup {id}]
  IN IF CanSend(w1, c)
     THEN [Say(w1, "TX_JOINCHAN", c) EXCEPT !.joinPending[c] = @ \cup {id}]
     ELSE Say(w1, "REJECTED", c)

JoinRoom(c, id) ==
  /\ id \notin joinPending[c]
  /\ Commit(JoinRoomCall(Cur, c, id))

\* queryUser(user): a query id is drawn, the handler is registered, then
\* TxCmd is called
\* as QueryUserCall, but the static counter is not advanced
QueryUserCallReusesId(w, c) ==
  LET q == IF w.userQueryId = 0 THEN firstUserQueryId ELSE w.userQueryId
      w1 == [Say(w, "queryUser()", c) EXCEPT !.userQueryId = q,
                                             !.queryIds = @ \cup {q},
                                             !.queryListeners[c] = @ \cup {q}]
  IN IF CanSend(w1, c)
     THEN [Say(w1, "TX_USERNAMELOOKUP", c) EXCEPT !.queryPending[c] = @ \cup {q}]
     ELSE Say(w1, "REJECTED", c)

QueryUserCall(w, c) ==
  LET q == IF w.userQueryId = 0 THEN firstUserQueryId ELSE w.userQueryId
      w1 == [Say(w, "queryUser()", c) EXCEPT !.userQueryId = q + 1,
                                             !.queryIds = @ \cup {q},
                                             !.queryListeners[c] = @ \cup {q}]
  IN IF CanSend(w1, c)
     THEN [Say(w1, "TX_USERNAMELOOKUP", c) EXCEPT !.queryPending[c] = @ \cup {q}]
     ELSE Say(w1, "REJECTED", c)

QueryUser(c) ==
  /\ userQueryId < firstUserQueryId + MaxQueries
  /\ Commit(QueryUserCall(Cur, c))

\* the packets for which the resultHandler of joinRoom calls resolve
JoinResolves == {"CMESG", "JOINCHAN_JOIN"}

\* the resultHandler of joinRoom, run for a packet about model `about`
\* (0: the packet is about no model; NumModels + 1: a model nobody joins)
JoinResult(w, c, kind, about) ==
  IF about \notin w.joinListeners[c] THEN w
  ELSE LET w1 == [w EXCEPT !.joinListeners[c] = @ \ {about}]
       IN CASE kind = "JOINCHAN_OTHER" -> w1
            [] about \notin w.joinPending[c] -> w1
            [] kind \in JoinResolves ->
                 [Say(w1, "JOIN_RESOLVED", c) EXCEPT !.joinPending[c] = @ \ {about}]
            [] OTHER ->
                 [Say(w1, "JOIN_REJECTED", c) EXCEPT !.joinPending[c] = @ \ {about}]

\* _packetReceived for one of the packets joinRoom listens for
PacketRoom(w, c, kind, about) ==
  Say(JoinResult(Say(w, kind, c), c, kind, about), "ANY", c)

RecvRoom(c, s, kind, about) ==
  /\ ~MicroPending
  /\ sock[c][s].st \in {"open", "closing"}
  /\ Commit(PacketRoom(Cur, c, kind, about))

\* the shapes of the sMessage of a USERNAMELOOKUP packet
LookupPayloads == {"absent", "string", "object"}

\* the handler of queryUser(q), run for a USERNAMELOOKUP packet whose nArg1
\* is q
QueryResult(w, c, q, sMessage) ==
  IF q \notin w.queryListeners[c] THEN w
  ELSE LET w1 == [w EXCEPT !.queryListeners[c] = @ \ {q}]
       IN IF q \notin w.queryPending[c] THEN w1
          ELSE [Say(w1, IF sMessage \in {"string", "absent"}
                        THEN "QUERY_UNDEFINED" ELSE "QUERY_MESSAGE", c)
                  EXCEPT !.queryPending[c] = @ \ {q}]

\* _packetReceived for a USERNAMELOOKUP packet whose nArg1 is q
PacketLookup(w, c, q, sMessage) ==
  Say(QueryResult(Say(w, "USERNAMELOOKUP", c), c, q, sMessage), "ANY", c)

RecvLookup(c, s, q, sMessage) ==
  /\ ~MicroPending
  /\ sock[c][s].st \in {"open", "closing"}
  /\ Commit(PacketLookup(Cur, c, q, sMessage))

\* one client with a single connection attempt's worth of sockets, and the
\* application's joinRoom and queryUser calls
InitFacade ==
  /\ useWebSockets \in [Clients -> BOOLEAN]
  /\ \A c \in Clients \ {1} : useWebSockets[c]
  /\ connectionTimeout = [c \in Clients |-> FALSE]
  /\ sockLimit = MaxSocketsMulti
  /\ camYou = [c \in Clients |-> FALSE]
  /\ listCall = NoCall
  /\ Constructed

StepFacade(c) ==
  \/ \E d \in BOOLEAN : Connect(c, d)
  \/ Disconnect(c)
  \/ MicroCatch(c)
  \/ \E d, ok \in BOOLEAN : HttpDone(c, d, ok)
  \/ ReconnectFire(c)
  \/ \E s \in SockIds : SockOpen(c, s)
  \/ \E s \in SockIds : SockError(c, s)
  \/ \E s \in SockIds : SockClose(c, s)
  \/ \E s \in SockIds, ok \in BOOLEAN : RecvLogin(c, s, ok)
  \/ \E id \in ModelIds : JoinRoom(c, id)
  \/ QueryUser(c)
  \/ \E s \in SockIds, k \in RoomPackets, a \in 0 .. NumModels + 1 :
       RecvRoom(c, s, k, a)
  \/ \E s \in SockIds, q \in QueryIds, m \in LookupPayloads :
       RecvLookup(c, s, q, m)

NextFacade == StepFacade(1)

SpecFacade == InitFacade /\ [][NextFacade]_vars

\* the steps of a client with the default options (WebSocket dialect, no
\* connectionTimeout) that the application connects and never disconnects
StepMulti(c) ==
  \/ \E d \in BOOLEAN : Connect(c, d)
  \/ \E d, ok \in BOOLEAN : HttpDone(c, d, ok)
  \/ ReconnectFire(c)
  \/ \E s \in SockIds : LoginTimerFire(c, s)
  \/ \E silent, stateSilent \in BOOLEAN : KeepAliveTick(c, silent, stateSilent)
  \/ \E s \in SockIds : SockOpen(c, s)
  \/ \E s \in SockIds : SockError(c, s)
  \/ \E s \in SockIds : SockClose(c, s)
  \/ \E s \in SockIds, ok \in BOOLEAN : RecvLogin(c, s, ok)

NextMulti == \E c \in Clients : StepMulti(c)

SpecMulti == InitMulti /\ [][NextMulti]_vars

\* ------------------------------------------------------------------ claims

\* some connection attempt of the client is under way: a configuration fetch
\* or a socket that is connecting
AttemptInProgress(c) ==
  \/ pend[c][<<TRUE, TRUE>>] + pend[c][<<TRUE, FALSE>>]
       + pend[c][<<FALSE, TRUE>>] + pend[c][<<FALSE, FALSE>>] > 0
  \/ \E s \in SockIds : sock[c][s].st = "connecting"

\* C1: in every reachable state the reconnect delay currentReconnectSeconds is
\* at most maximumReconnectSeconds (2400 s), however many clients there are.
C1_DelayAtMostMaximum ==
  currentReconnectSeconds <= Secs(maximumReconnectSeconds)

\* C2: the delays of consecutive failed attempts form the sequence 5, 7.5,
\* 11.25, ...: each arming of the reconnect timer uses the current delay and
\* multiplies it by 1.5 for the next one, a transition to ACTIVE makes it 5 s
\* again, and a failed attempt counts once: the 'close' of a socket whose
\* 'error' or 'end' has already reported the failure changes neither the armed
\* timer nor the delay.
C2_OneFailureOneBackOffStep ==
  [][\A c \in Clients :
       /\ (\E s \in SockIds : sock[c][s].st = "halfdead" /\ sock'[c][s].st = "closed")
            => /\ reconnectTimer'[c] = reconnectTimer[c]
               /\ currentReconnectSeconds' = currentReconnectSeconds
       /\ Did(out', "ARM", c) /\ currentReconnectSeconds < Secs(maximumReconnectSeconds)
            => /\ reconnectTimer'[c] = currentReconnectSeconds
               /\ 2 * currentReconnectSeconds' \in
                    {3 * currentReconnectSeconds, 3 * currentReconnectSeconds - 1}
       /\ state[c] # ACTIVE /\ state'[c] = ACTIVE
            => currentReconnectSeconds' = Secs(initialReconnectSeconds)
    ]_vars

C4_LossLeadsToReconnect ==
  [][\A c \in Clients :
       /\ Did(out', "_disconnected", c) /\ state[c] # IDLE /\ ~manualDisconnect[c]
            => state'[c] = PENDING /\ reconnectTimer'[c] # 0
       /\ reconnectTimer'[c] # 0 => choseToLogIn'[c] = userChoice'[c]
       /\ state'[c] = PENDING => reconnectTimer'[c] # 0 \/ AttemptInProgress(c)'
    ]_vars

\* C5: after disconnect() was called on an ACTIVE client and the socket close
\* that follows has resolved its promise, the client is IDLE, no reconnect
\* timer is armed and no socket of it is open, until connect is called again.
C5_ManualCloseLeavesIdle ==
  \A c \in Clients :
    quiesced[c] = ACTIVE =>
      /\ state[c] = IDLE
      /\ reconnectTimer[c] = 0
      /\ \A s \in SockIds : sock[c][s].st # "open"

\* C6: once the promise of disconnect() has resolved, in whatever state it was
\* called, and until connect is called again, the client is IDLE, has no
\* reconnect timer and no keepalive timer, and no socket of it is connecting
\* or open.
C6_QuiescentAfterDisconnect ==
  \A c \in Clients :
    quiesced[c] # "no" =>
      /\ state[c] = IDLE
      /\ reconnectTimer[c] = 0
      /\ intervals[c] = 0
      /\ \A s \in SockIds : sock[c][s].st \notin {"connecting", "open"}

\* C7: connect called on an ACTIVE client changes nothing of the client;
\* connect called on a PENDING client leaves its sockets, fetches and timers
\* as they are and only registers one more waiter; and that waiter is resolved
\* by the CLIENT_CONNECTED of the step in which the client becomes ACTIVE.
C7_ConnectIsIdempotent ==
  [][\A c \in Clients :
       /\ Did(out', "connect()", c) /\ state[c] = ACTIVE
            => /\ state'[c] = ACTIVE /\ client'[c] = client[c] /\ sock'[c] = sock[c]
               /\ pend'[c] = pend[c] /\ waiters'[c] = waiters[c]
               /\ keepAliveTimer'[c] = keepAliveTimer[c] /\ intervals'[c] = intervals[c]
               /\ reconnectTimer'[c] = reconnectTimer[c] /\ loginTimers'[c] = loginTimers[c]
       /\ Did(out', "connect()", c) /\ state[c] = PENDING
            => /\ state'[c] = PENDING /\ client'[c] = client[c] /\ sock'[c] = sock[c]
               /\ pend'[c] = pend[c]
               /\ keepAliveTimer'[c] = keepAliveTimer[c] /\ intervals'[c] = intervals[c]
               /\ reconnectTimer'[c] = reconnectTimer[c] /\ loginTimers'[c] = loginTimers[c]
               /\ waiters'[c]["wait"] = waiters[c]["wait"] + 1
       /\ waiters[c]["wait"] > 0 /\ state'[c] = ACTIVE
            => Did(out', "CLIENT_CONNECTED", c) /\ waiters'[c]["wait"] = 0
    ]_vars

\* connect was called while a dial was in progress, and waits for it
C7_Witness ==
  \E c \in Clients :
    /\ Did(out, "connect()", c)
    /\ state[c] = PENDING
    /\ waiters[c]["wait"] > 0
    /\ \E s \in SockIds : sock[c][s].st = "connecting"

\* C8: the promise of connect called from IDLE is pending exactly while its
\* ensureConnected waiter is registered, and only while the client is PENDING;
\* it is resolved by CLIENT_CONNECTED in the step that makes the client ACTIVE,
\* rejected by disconnect() or by the expiry of connectionTimeout, and once
\* settled it never changes until connect is called from IDLE again.
C8_ConnectPromiseSettlesOnce ==
  [][\A c \in Clients :
       /\ connectPromise'[c] = "pending"
            <=> waiters'[c]["connect"] > 0
       /\ connectPromise'[c] = "pending" => state'[c] = PENDING
       /\ connectPromise[c] = "pending" /\ connectPromise'[c] = "resolved"
            => state'[c] = ACTIVE /\ Did(out', "CLIENT_CONNECTED", c)
       /\ connectPromise[c] = "pending" /\ connectPromise'[c] = "rejected"
            => /\ state'[c] # ACTIVE
               /\ \/ Did(out', "disconnect()", c)
                  \/ connectionTimeout[c] /\ out' = <<>>
       /\ connectPromise[c] = "pending" /\ Did(out', "disconnect()", c)
            => connectPromise'[c] = "rejected"
       /\ connectPromise[c] \in {"resolved", "rejected"}
          /\ connectPromise'[c] # connectPromise[c]
            => /\ state[c] = IDLE
               /\ Did(out', "connect()", c)
               /\ connectPromise'[c] = "pending"
    ]_vars

\* disconnect() was called before the client became ACTIVE and rejected the
\* promise of connect
C8_Witness ==
  \E c \in Clients :
    /\ connectPromise[c] = "rejected"
    /\ Did(out, "disconnect()", c)
    /\ state[c] = IDLE

C10_LoginRejectionSurfaced ==
  \A c \in Clients :
    Did(out, "LOGIN_REJECTED", c) =>
      /\ connectPromise[c] = "rejected"
      /\ reconnectTimer[c] = 0
      /\ loginTimers[c] = {}

\* ------------------------------------------------- the model lists

\* the shapes of sMessage.rdata in a MANAGELIST packet
ListPayloads == {"absent", "array", "object"}

\* the nArg2 of a MANAGELIST packet
ListTypes == {"CAMS", "TAGS", "FRIENDS"}

EmitModelsLoaded(w, c, s) ==
  LET w1 == Say(w, "CLIENT_MODELSLOADED", c)
  IN [w1 EXCEPT !.modelsLoaded[c] = @ \cup {s},
                !.modelsListeners[c] = 0,
                !.modelsPromise[c] =
                   IF w.modelsListeners[c] > 0 /\ @ = "pending"
                   THEN "resolved" ELSE @]

\* _packetReceived for a MANAGELIST packet read from socket s
PacketList(w, c, s, list, rdata) ==
  LET w1 ==
        CASE rdata = "absent" -> w
          [] list = "CAMS" /\ rdata = "array" /\ ~w.completedModels[c] ->
               LET v == [w EXCEPT !.completedModels[c] = TRUE]
               IN IF v.completedTags[c] THEN EmitModelsLoaded(v, c, s) ELSE v
          [] list = "TAGS" /\ ~w.completedTags[c] ->
               LET v == [w EXCEPT !.completedTags[c] = TRUE]
               IN IF v.completedModels[c] THEN EmitModelsLoaded(v, c, s) ELSE v
          [] OTHER -> w
  IN Say(Say(w1, "MANAGELIST", c), "ANY", c)

RecvList(c, s, list, rdata) ==
  /\ ~MicroPending
  /\ sock[c][s].st \in {"open", "closing"}
  /\ Commit(PacketList(Cur, c, s, list, rdata))

\* connectAndWaitForModels() called by the application
ConnectAndWaitForModelsCall(w, c) ==
  LET w0 == Say(w, "connectAndWaitForModels()", c)
  IN IF w.state[c] = ACTIVE
     THEN [w0 EXCEPT !.modelsPromise[c] = "resolved"]
     ELSE ConnectCall(
            [w0 EXCEPT !.modelsListeners[c] = Inc(@, MaxWaiters),
                       !.modelsPromise[c] = "pending",
                       !.modelsConnect[c] =
                          IF w.state[c] = IDLE THEN "connect" ELSE "wait"],
            c, TRUE)

ConnectAndWaitForModels(c) ==
  /\ modelsPromise[c] # "pending"
  /\ state[c] = IDLE => /\ NumPend(Cur, c) < MaxPending
                        /\ Cardinality(FreeSocks(Cur, c)) > NumPend(Cur, c)
  /\ state[c] = PENDING => waiters[c]["wait"] < MaxWaiters
  /\ Commit(ConnectAndWaitForModelsCall(Cur, c))

\* one client with the default options
InitLists ==
  /\ useWebSockets = [c \in Clients |-> TRUE]
  /\ connectionTimeout = [c \in Clients |-> FALSE]
  /\ sockLimit = MaxSockets
  /\ camYou = [c \in Clients |-> FALSE]
  /\ listCall = NoCall
  /\ Constructed

StepLists(c) ==
  \/ \E d \in BOOLEAN : Connect(c, d)
  \/ ConnectAndWaitForModels(c)
  \/ Disconnect(c)
  \/ \E d \in BOOLEAN : MicroDial(c, d)
  \/ MicroCatch(c)
  \/ \E d, ok \in BOOLEAN : HttpDone(c, d, ok)
  \/ ReconnectFire(c)
  \/ \E s \in SockIds : SockOpen(c, s)
  \/ \E s \in SockIds : SockError(c, s)
  \/ \E s \in SockIds : SockClose(c, s)
  \/ \E s \in SockIds, list \in ListTypes, rdata \in ListPayloads :
       RecvList(c, s, list, rdata)

NextLists == StepLists(1)

SpecLists == InitLists /\ [][NextLists]_vars

\* ------------------------------------------------- calls that need a connection

\* the timeout argument of ensureConnected: undefined, -1 or a number of ms
Timeouts == {"undefined", "-1", "ms"}

\* as EnsureConnectedCall, but the listeners are registered in every state
EnsureConnectedCallListens(w, c, timeout) ==
  LET w0 == Say(w, "ensureConnected()", c)
  IN [w0 EXCEPT !.ensure[c] =
        [promise |-> CASE w.state[c] = IDLE -> "rejected"
                       [] w.state[c] = ACTIVE -> "resolved"
                       [] timeout = "-1" -> "rejected"
                       [] OTHER -> "pending",
         resolver |-> TRUE, rejecter |-> TRUE, timer |-> timeout = "ms",
         settles |-> IF w.state[c] = PENDING /\ timeout # "-1" THEN 0 ELSE 1]]

\* ensureConnected(timeout) called by the application
EnsureConnectedCall(w, c, timeout) ==
  LET w0 == Say(w, "ensureConnected()", c)
  IN CASE w.state[c] = IDLE ->
            [w0 EXCEPT !.ensure[c] = EnsureSettle([NoEnsure EXCEPT !.promise = "pending"], "rejected")]
       [] w.state[c] = ACTIVE ->
            [w0 EXCEPT !.ensure[c] = EnsureSettle([NoEnsure EXCEPT !.promise = "pending"], "resolved")]
       [] timeout = "-1" ->
            [w0 EXCEPT !.ensure[c] = EnsureSettle([NoEnsure EXCEPT !.promise = "pending"], "rejected")]
       [] OTHER ->
            [w0 EXCEPT !.ensure[c] =
               [promise |-> "pending", resolver |-> TRUE, rejecter |-> TRUE,
                timer |-> timeout = "ms", settles |-> 0]]

EnsureConnected(c, timeout) ==
  /\ ensure[c].promise # "pending"
  /\ Commit(EnsureConnectedCall(Cur, c, timeout))

\* as EnsureTimer, but the timer leaves the listeners registered
EnsureTimerKeepsListeners(w, c) ==
  [Say(w, "ENSURE_TIMEOUT", c) EXCEPT
     !.ensure[c] = EnsureSettle([@ EXCEPT !.timer = FALSE], "rejected")]

\* the callback of the timer of ensureConnected
EnsureTimer(w, c) ==
  [Say(w, "ENSURE_TIMEOUT", c) EXCEPT
     !.ensure[c] =
        EnsureSettle([@ EXCEPT !.timer = FALSE, !.rejecter = FALSE,
                               !.resolver = FALSE], "rejected")]

EnsureTimeout(c) ==
  /\ ~MicroPending
  /\ ensure[c].timer
  /\ Commit(EnsureTimer(Cur, c))

\* TxCmd called by the application
TxCmdCall(c) ==
  /\ state[c] \in ClientState
  /\ Commit(TxCmd(Say(Cur, "TxCmd()", c), c, "TX_USER"))

StepCalls(c) ==
  \/ \E d \in BOOLEAN : Connect(c, d)
  \/ Disconnect(c)
  \/ MicroCatch(c)
  \/ \E d, ok \in BOOLEAN : HttpDone(c, d, ok)
  \/ ReconnectFire(c)
  \/ \E s \in SockIds : SockOpen(c, s)
  \/ \E s \in SockIds : SockError(c, s)
  \/ \E s \in SockIds : SockClose(c, s)
  \/ \E timeout \in Timeouts : EnsureConnected(c, timeout)
  \/ EnsureTimeout(c)
  \/ TxCmdCall(c)

NextCalls == StepCalls(1)

SpecCalls == InitFacade /\ [][NextCalls]_vars

\* ------------------------------------------------- queries of several clients

StepQuery(c) ==
  \/ \E d \in BOOLEAN : Connect(c, d)
  \/ \E d, ok \in BOOLEAN : HttpDone(c, d, ok)
  \/ \E s \in SockIds : SockOpen(c, s)
  \/ \E s \in SockIds : SockClose(c, s)
  \/ QueryUser(c)
  \/ \E s \in SockIds, q \in QueryIds, m \in LookupPayloads :
       RecvLookup(c, s, q, m)

NextQuery == \E c \in Clients : StepQuery(c)

SpecQuery == InitMulti /\ [][NextQuery]_vars

\* the client is ACTIVE on a connection on which it logged in
LoggedInActive(c) ==
  /\ state[c] = ACTIVE
  /\ client[c] # 0
  /\ sock[c][client[c]].st = "open"
  /\ sock[c][client[c]].doLogin

\* C11: Model.reset() is never invoked while some client that logged in on its
\* current connection is still ACTIVE.
C11_ResetOnlyWithoutLoggedInClient ==
  \A c \in Clients :
    Did(out, "MODEL_RESET", c) => \A d \in Clients : ~LoggedInActive(d)

\* C12: a keepalive tick while ACTIVE with a silence threshold exceeded
\* force-closes the socket and leaves the client PENDING; a tick while ACTIVE
\* otherwise sends exactly one NULL packet; a tick while not ACTIVE does nothing.
C12_KeepAliveTickEffect ==
  [][\A c \in Clients : \A silent, stateSilent \in BOOLEAN :
       KeepAliveTick(c, silent, stateSilent) =>
         IF state[c] # ACTIVE THEN Commit(Cur)
         ELSE IF silent \/ (choseToLogIn[c] /\ stateSilent)
         THEN /\ client[c] # 0
              /\ sock'[c][client[c]].st \in {"aborting", "closing", "closed"}
              /\ state'[c] = PENDING
         ELSE /\ Cardinality({i \in 1 .. Len(out') : out'[i].ev = "TX_NULL"}) = 1
              /\ ~Did(out', "THROW", c)]_vars

\* C13: when the login timer of a connection fires, that connection is closed
\* and the client is PENDING with the reconnect timer armed; a received LOGIN
\* packet, a CLIENT_DISCONNECTED or a CLIENT_MANUAL_DISCONNECT leaves no login
\* timer armed.
C13_LoginTimerFiresOrIsCancelled ==
  [][\A c \in Clients :
       /\ \A s \in SockIds :
            LoginTimerFire(c, s) =>
              /\ sock'[c][s].st \in {"closing", "closed"}
              /\ state'[c] = PENDING
              /\ reconnectTimer'[c] # 0
       /\ ( \/ \E s \in SockIds, ok \in BOOLEAN : RecvLogin(c, s, ok)
            \/ Did(out', "CLIENT_DISCONNECTED", c)
            \/ Did(out', "CLIENT_MANUAL_DISCONNECT", c) )
          => loginTimers'[c] = {}]_vars

C15_WaitsForLoggedInModels ==
  [][\A c \in Clients :
       /\ ConnectAndWaitForModels(c) =>
            /\ choseToLogIn'[c]
            /\ modelsPromise'[c] = "resolved"
                 => Did(out', "CLIENT_MODELSLOADED", c)
       /\ (modelsPromise[c] = "pending" /\ modelsPromise'[c] = "resolved")
            => Did(out', "CLIENT_MODELSLOADED", c)]_vars

\* the application's ensureConnected() has no listener and no timer
EnsureUnhooked(e) == ~e.resolver /\ ~e.rejecter /\ ~e.timer

\* C16: ensureConnected resolves at once when ACTIVE, rejects at once when
\* IDLE, and rejects at once when the timeout is -1 and the client is not
\* ACTIVE; in these cases it leaves no listener and no timer, and no call of
\* it changes the connection state, a socket, a pending attempt or a timer
\* of the client.
C16_EnsureConnectedImmediate ==
  [][\A c \in Clients : \A timeout \in Timeouts :
       EnsureConnected(c, timeout) =>
         /\ state[c] = ACTIVE =>
              ensure'[c].promise = "resolved" /\ EnsureUnhooked(ensure'[c])
         /\ state[c] = IDLE =>
              ensure'[c].promise = "rejected" /\ EnsureUnhooked(ensure'[c])
         /\ (timeout = "-1" /\ state[c] # ACTIVE) =>
              ensure'[c].promise = "rejected" /\ EnsureUnhooked(ensure'[c])
         /\ UNCHANGED <<state, client, sock, pend, pendCatch, waiters,
                        reconnectTimer, keepAliveTimer, intervals,
                        choseToLogIn, manualDisconnect>>]_vars

\* ensureConnected(-1) was called while PENDING and has rejected
C16_Witness ==
  /\ Did(out, "ensureConnected()", 1)
  /\ state[1] = PENDING
  /\ ensure[1].promise = "rejected"

\* C17: the promise of an ensureConnected that waits is settled at most once;
\* while it is pending both listeners are registered; a CLIENT_CONNECTED
\* resolves it, a CLIENT_MANUAL_DISCONNECT or the expiry of its timer rejects
\* it, and nothing else settles it; once it is settled no timer and no
\* listener of it remains.
C17_EnsureConnectedSettlesOnce ==
  /\ [](\A c \in Clients :
          /\ ensure[c].settles <= 1
          /\ ensure[c].promise = "pending" =>
               ensure[c].resolver /\ ensure[c].rejecter /\ ensure[c].settles = 0
          /\ ensure[c].promise # "pending" => EnsureUnhooked(ensure[c]))
  /\ [][\A c \in Clients :
          ensure[c].promise = "pending" =>
            /\ Did(out', "CLIENT_CONNECTED", c) => ensure'[c].promise = "resolved"
            /\ Did(out', "CLIENT_MANUAL_DISCONNECT", c) =>
                 ensure'[c].promise = "rejected"
            /\ EnsureTimeout(c) => ensure'[c].promise = "rejected"
            /\ ensure'[c].promise # "pending" =>
                 \/ Did(out', "CLIENT_CONNECTED", c)
                 \/ Did(out', "CLIENT_MANUAL_DISCONNECT", c)
                 \/ EnsureTimeout(c)]_vars

\* the timer of an ensureConnected that waited has expired and rejected it
C17_Witness ==
  /\ Did(out, "ENSURE_TIMEOUT", 1)
  /\ ensure[1].promise = "rejected"
  /\ ensure[1].settles = 1

\* C18: while the promise of joinRoom(a) is pending, a CMESG or JOINCHAN(JOIN)
\* packet about model a resolves it, a JOINCHAN(PART), ZBAN or BANCHAN packet
\* about model a rejects it, and after any other packet it is still pending
\* with its result handler registered.
C18_JoinRoomSettledByFirstOutcome ==
  [][\A c \in Clients : \A a \in ModelIds :
       a \in joinPending[c] =>
         \A s \in SockIds, kind \in RoomPackets, about \in 0 .. NumModels + 1 :
           RecvRoom(c, s, kind, about) =>
             CASE about = a /\ kind \in JoinResolves ->
                    a \notin joinPending'[c] /\ Did(out', "JOIN_RESOLVED", c)
               [] about = a /\ kind \in {"JOINCHAN_PART", "ZBAN", "BANCHAN"} ->
                    a \notin joinPending'[c] /\ Did(out', "JOIN_REJECTED", c)
               [] OTHER ->
                    a \in joinPending'[c] /\ a \in joinListeners'[c]]_vars

\* C19: every queryUser call is assigned an id of at least 20 that is greater
\* than every id assigned before in the process; a USERNAMELOOKUP packet
\* resolves the pending query of the receiving client whose id is its nArg1,
\* with undefined when its payload is a string or absent, and resolves no
\* other query of any client.
C19_QueryIdCorrelatesResponse ==
  [][\A c \in Clients :
       /\ QueryUser(c) =>
            \E q \in queryListeners'[c] :
              /\ queryIds' = queryIds \cup {q}
              /\ q >= 20
              /\ \A p \in queryIds : q > p
       /\ \A s \in SockIds, q \in QueryIds, m \in LookupPayloads :
            RecvLookup(c, s, q, m) =>
              /\ \A d \in Clients :
                   queryPending'[d] = queryPending[d] \ (IF d = c THEN {q} ELSE {})
              /\ q \in queryPending[c] =>
                   IF m = "object" THEN Did(out', "QUERY_MESSAGE", c)
                   ELSE Did(out', "QUERY_UNDEFINED", c)
              /\ q \notin queryPending[c] =>
                   /\ ~Did(out', "QUERY_MESSAGE", c)
                   /\ ~Did(out', "QUERY_UNDEFINED", c)]_vars

\* a query of client 2 has been resolved with undefined while a query of
\* client 1 is pending
C19_Witness ==
  /\ Did(out, "QUERY_UNDEFINED", 2)
  /\ queryPending[1] # {}

\* C20: a TxCmd called by the application in a state other than ACTIVE throws
\* and hands nothing to a socket.
C20_TxCmdFailsUnlessActive ==
  [][\A c \in Clients :
       (TxCmdCall(c) /\ state[c] # ACTIVE) =>
         Did(out', "THROW", c) /\ ~Did(out', "TX_USER", c)]_vars

\* ------------------------------------------------- the model registry

\* bounds of the registry: the largest session id and camscore of a payload
MaxSid == 2
MaxCamScore == 1

\* a property a payload does not carry
Undefined == -2
Absent == "absent"

\* STATE.Offline and one of the other video states
Offline == "Offline"
Online == "Online"
\* FCLEVEL.MODEL and one of the other user levels
LvModel == "MODEL"
LvOther == "OTHER"

\* a model as it is created: only the offline session, which is the best
\* one; of a session's state, what best-session selection reads and the uid
NewModel ==
  [sessions |-> (0 :> [vs |-> Offline, camscore |-> Undefined,
                       uid |-> Undefined]),
   bestSessionId |-> 0]

Known(w, uid) == uid \in DOMAIN w.knownModels

\* Model.getModel(id, createIfNecessary)
GetModel(w, uid, createIfNecessary) ==
  IF Known(w, uid) \/ ~createIfNecessary THEN w
  ELSE [w EXCEPT !.knownModels = (uid :> NewModel) @@ @]

\* Model.getModel(id): createIfNecessary defaults to true
GetModelDefault(w, uid) == GetModel(w, uid, TRUE)

\* (isOnline, camScore, sid) of session a is at most that of session b:
\* isOnline is vs # Offline, camScore defaults to 0
TupleLeq(sessions, a, b) ==
  LET IsOnline(s) == IF sessions[s].vs # Offline THEN 1 ELSE 0
      CamScore(s) == IF sessions[s].camscore = Undefined
                     THEN 0 ELSE sessions[s].camscore
      oa == IsOnline(a)
      ob == IsOnline(b)
      ca == CamScore(a)
      cb == CamScore(b)
  IN \/ oa < ob
     \/ oa = ob /\ ca < cb
     \/ oa = ob /\ ca = cb /\ a <= b

\* as BestSession, but the newest session wins whatever its state
BestSessionNewest(sessions) ==
  CHOOSE s \in DOMAIN sessions : \A t \in DOMAIN sessions : t <= s

\* best-session selection
BestSession(sessions) ==
  CHOOSE s \in DOMAIN sessions :
    \A t \in DOMAIN sessions : TupleLeq(sessions, t, s)

\* model.merge(msg): a uid of 0 with a positive sid becomes the sid; overlay
\* msg on the session msg.sid (writing undefined leaves a property
\* unchanged), select the best session, drop the offline sessions that are
\* neither it nor session 0
Merge(model, msg) ==
  LET Overlay(old, new, none) == IF new = none THEN old ELSE new
      sid == IF msg.sid = Undefined THEN 0 ELSE msg.sid
      uid == IF msg.uid = 0 /\ msg.sid > 0 THEN msg.sid ELSE msg.uid
      stored == IF sid \in DOMAIN model.sessions
                THEN model.sessions[sid]
                ELSE [vs |-> Absent, camscore |-> Undefined,
                      uid |-> Undefined]
      merged == [vs |-> Overlay(stored.vs, msg.vs, Absent),
                 camscore |-> Overlay(stored.camscore, msg.camscore, Undefined),
                 uid |-> Overlay(stored.uid, uid, Undefined)]
      all == [s \in DOMAIN model.sessions \cup {sid} |->
                IF s = sid THEN merged ELSE model.sessions[s]]
      best == BestSession(all)
      kept == {s \in DOMAIN all : s = 0 \/ s = best \/ all[s].vs # Offline}
  IN [sessions |-> [s \in kept |-> all[s]], bestSessionId |-> best]

\* possibleModel.merge(msg) when possibleModel is defined
MergeInto(w, c, uid, msg) ==
  IF Known(w, uid)
  THEN Say([w EXCEPT !.knownModels[uid] = Merge(@, msg)], "MERGE", c)
  ELSE w

\* ------------------------------------------------- the packet dispatcher

\* constants of the protocol that _packetReceived reads
TOKENINC == 6
PART == 2
REDIS_JSON == 8192
RoomHelperMin == 100
FCL == (1 :> "FRIENDS") @@ (20 :> "TAGS") @@ (21 :> "CAMS")

\* the packet types whose payload is a candidate state update
StateClass == {"DETAILS", "ROOMHELPER", "SESSIONSTATE", "ADDFRIEND",
               "ADDIGNORE", "CMESG", "PMESG", "TXPROFILE", "USERNAMELOOKUP",
               "MYCAMSTATE", "MYWEBCAM", "JOINCHAN"}

\* what an EXTDATA payload says of the packet it announces: msg.type, msg.arg2
NoEnvelope == [type |-> "none", arg2 |-> 0]

\* a payload: what typeof says of it, the properties of a session state it
\* carries, the uids of its entries (TAGS, BOOKMARKS, ROOMDATA, list
\* records), its rdata (MANAGELIST), the type of the packet it announces
\* (EXTDATA) and its characters (a payload that is no JSON object)
Msg(kind) ==
  [kind |-> kind, lv |-> Absent, uid |-> Undefined, sid |-> Undefined,
   vs |-> Absent, camscore |-> Undefined, keys |-> {}, rdata |-> "absent",
   msg |-> NoEnvelope, text |-> <<>>]

\* new Packet(...); aboutModel is the uid of the model the packet is about
Packet(FCType, nFrom, nTo, nArg1, nArg2, sPayload, sMessage, aboutModel) ==
  [FCType |-> FCType, nFrom |-> nFrom, nTo |-> nTo, nArg1 |-> nArg1,
   nArg2 |-> nArg2, sPayload |-> sPayload, sMessage |-> sMessage,
   aboutModel |-> aboutModel]

Skipped(p) ==
  \/ p.FCType = "DETAILS" /\ p.nFrom = TOKENINC
  \/ p.FCType = "ROOMHELPER" /\ p.nArg2 < RoomHelperMin
  \/ p.FCType = "JOINCHAN" /\ p.nArg2 = PART

\* the uid a state-class payload is merged under
StateUid(p) ==
  LET msg == p.sMessage
      uid == IF msg.uid = 0 /\ msg.sid > 0 THEN msg.sid ELSE msg.uid
  IN IF uid = Undefined /\ p.aboutModel # Undefined THEN p.aboutModel ELSE uid

\* as HandleState, but the model is created whatever the payload's lv
HandleStateCreates(w0, c, p) ==
  LET w == Say(w0, "_lastStatePacketTime", c)
  IN IF Skipped(p) \/ p.sMessage.kind = "undefined" THEN w
     ELSE LET uid == StateUid(p)
          IN IF uid # Undefined /\ uid # -1
                /\ p.sMessage.lv \in {Absent, LvModel}
             THEN MergeInto(GetModel(w, uid, TRUE), c, uid, p.sMessage)
             ELSE w

\* as HandleState, but _lastStatePacketTime is set only if the packet is not
\* skipped
HandleStateStampsUnskipped(w0, c, p) ==
  IF Skipped(p) THEN w0
  ELSE LET w == Say(w0, "_lastStatePacketTime", c)
       IN IF p.sMessage.kind = "undefined" THEN w
          ELSE LET uid == StateUid(p)
               IN IF uid # Undefined /\ uid # -1
                     /\ p.sMessage.lv \in {Absent, LvModel}
                  THEN MergeInto(GetModel(w, uid, p.sMessage.lv = LvModel), c,
                                 uid, p.sMessage)
                  ELSE w

\* the state-class case of _packetReceived: _lastStatePacketTime is set to
\* _lastPacketTime, then the payload is merged unless the packet is skipped
HandleState(w0, c, p) ==
  LET w == Say(w0, "_lastStatePacketTime", c)
  IN IF Skipped(p) \/ p.sMessage.kind = "undefined" THEN w
     ELSE LET uid == StateUid(p)
          IN IF uid # Undefined /\ uid # -1
                /\ p.sMessage.lv \in {Absent, LvModel}
             THEN MergeInto(GetModel(w, uid, p.sMessage.lv = LvModel), c, uid,
                            p.sMessage)
             ELSE w

\* for each uid: Model.getModel(uid) and, if it is defined, mergeTags
RECURSIVE MergeTagsEach(_, _, _)
MergeTagsEach(w, c, uids) ==
  IF uids = {} THEN w
  ELSE LET u == CHOOSE x \in uids : \A y \in uids : x <= y
           w1 == GetModelDefault(w, u)
       IN MergeTagsEach(IF Known(w1, u) THEN Say(w1, "MERGETAGS", c) ELSE w1,
                        c, uids \ {u})

\* for each uid: Model.getModel(uid, lv is MODEL) and, if it is defined,
\* merge(the record)
RECURSIVE MergeRecords(_, _, _, _)
MergeRecords(w, c, uids, msg) ==
  IF uids = {} THEN w
  ELSE LET u == CHOOSE x \in uids : \A y \in uids : x <= y
           w1 == GetModel(w, u, msg.lv = LvModel)
       IN MergeRecords(MergeInto(w1, c, u, [msg EXCEPT !.uid = u]), c,
                       uids \ {u}, msg)

\* for each uid: Model.getModel(uid) and, if it is defined, merge(the entry)
RECURSIVE MergeBookmarks(_, _, _)
MergeBookmarks(w, c, uids) ==
  IF uids = {} THEN w
  ELSE LET u == CHOOSE x \in uids : \A y \in uids : x <= y
           w1 == GetModelDefault(w, u)
       IN MergeBookmarks(
            MergeInto(w1, c, u, [Msg("object") EXCEPT !.uid = u]), c,
            uids \ {u})

\* for each uid: Model.getModel(uid) and, if it is defined, merge the viewer
\* count into its best session
RECURSIVE MergeRoomData(_, _, _)
MergeRoomData(w, c, uids) ==
  IF uids = {} THEN w
  ELSE LET u == CHOOSE x \in uids : \A y \in uids : x <= y
           w1 == GetModelDefault(w, u)
       IN MergeRoomData(
            IF Known(w1, u)
            THEN MergeInto(w1, c, u,
                   [Msg("object") EXCEPT
                      !.sid = w1.knownModels[u].bestSessionId])
            ELSE w1,
            c, uids \ {u})

\* the TAGS case
HandleTags(w, c, p) ==
  IF p.sMessage.kind \in {"object", "array"}
  THEN MergeTagsEach(w, c, p.sMessage.keys) ELSE w

\* the BOOKMARKS case; reading .bookmarks of an undefined payload throws
HandleBookmarks(w, c, p) ==
  CASE p.sMessage.kind = "undefined" -> Throw(w, c)
    [] p.sMessage.kind = "object" -> MergeBookmarks(w, c, p.sMessage.keys)
    [] OTHER -> w

\* the ROOMDATA case
HandleRoomData(w, c, p) ==
  IF p.nArg1 = 0 /\ p.nArg2 = 0 /\ p.sMessage.kind \in {"object", "array"}
  THEN MergeRoomData(w, c, p.sMessage.keys) ELSE w

\* the EXTDATA case: _handleExtData runs up to its await of httpsGet
HandleExtData(w, c, s, p) ==
  IF /\ p.nTo = w.sessionId[c]
     /\ p.nArg2 = REDIS_JSON
     /\ p.sMessage.kind = "object"
     /\ p.sMessage.msg # NoEnvelope
  THEN [w EXCEPT !.extData[c] =
          Append(@, [msg |-> p.sMessage.msg, s |-> s])]
  ELSE w

\* the registry's part of the MANAGELIST case
HandleManageList(w, c, p) ==
  IF p.nArg2 > 0 /\ p.sMessage.kind # "undefined"
     /\ p.sMessage.rdata # "absent" /\ p.nArg2 \in DOMAIN FCL
  THEN CASE FCL[p.nArg2] = "TAGS" -> MergeTagsEach(w, c, p.sMessage.keys)
         [] p.sMessage.rdata = "array" ->
              MergeRecords(w, c, p.sMessage.keys, p.sMessage)
         [] OTHER -> w
  ELSE w

\* the LOGIN case and the events of a LOGIN packet
HandleLogin(w, c, p) ==
  IF p.nArg1 = 0 /\ p.sMessage.kind # "string"
  THEN Throw(w, c)
  ELSE PacketLogin(
         IF p.nArg1 = 0
         THEN [w EXCEPT !.sessionId[c] = p.nTo, !.username[c] = GuestName]
         ELSE w,
         c, p.nArg1 = 0)

\* _packetReceived(packet), the packet read from socket s: _lastPacketTime is
\* set to Date.now(), then the case of the packet's type runs
PacketReceived(w0, c, s, p) ==
  LET w == Say(w0, "_lastPacketTime", c)
      w1 == CASE p.FCType \in StateClass -> HandleState(w, c, p)
              [] p.FCType = "TAGS" -> HandleTags(w, c, p)
              [] p.FCType = "BOOKMARKS" -> HandleBookmarks(w, c, p)
              [] p.FCType = "EXTDATA" -> HandleExtData(w, c, s, p)
              [] p.FCType = "ROOMDATA" -> HandleRoomData(w, c, p)
              [] p.FCType = "MANAGELIST" -> HandleManageList(w, c, p)
              [] OTHER -> w
  IN CASE p.FCType = "LOGIN" -> HandleLogin(w, c, p)
       [] p.FCType = "MANAGELIST" ->
            PacketList(w1, c, s,
                       IF p.nArg2 \in DOMAIN FCL THEN FCL[p.nArg2] ELSE "OTHER",
                       IF p.nArg2 > 0 /\ p.sMessage.kind # "undefined"
                       THEN p.sMessage.rdata ELSE "absent")
       [] Threw(w1) -> w1
       [] OTHER -> Say(Say(w1, p.FCType, c), "ANY", c)

\* ------------------------------------------------- packets of every type

\* bound: the EXTDATA fetches a client has in flight
MaxFetches == 2

\* the catch of a try block: the error goes no further
Caught(w) == [w EXCEPT !.out = SelectSeq(@, LAMBDA t : t.ev # "THROW")]

\* a packet read from socket s is handed to _packetReceived
RecvPacket(c, s, p) ==
  /\ ~MicroPending
  /\ sock[c][s].st \in {"open", "closing"}
  /\ p.FCType = "EXTDATA" => Len(extData[c]) < MaxFetches
  /\ Commit(PacketReceived(Cur, c, s, p))

\* _handleExtData continues after its await: httpsGet has failed or has
\* returned contents that JSON.parse rejects (ok is false), or the packet
\* made of the parsed contents is handed to _packetReceived
ExtDataDone(c, i, ok, contents) ==
  /\ ~MicroPending
  /\ i \in 1 .. Len(extData[c])
  /\ LET f == extData[c][i]
         w == [Cur EXCEPT !.extData[c] =
                 SubSeq(@, 1, i - 1) \o SubSeq(@, i + 1, Len(@))]
     IN Commit(IF ok
               THEN Caught(PacketReceived(w, c, f.s,
                      Packet(f.msg.type, 0, 0, 0, f.msg.arg2, 0, contents,
                             Undefined)))
               ELSE w)

\* a payload that carries the state of session 1 of model 1
StateOfModel(vs) ==
  [Msg("object") EXCEPT !.lv = LvModel, !.uid = 1, !.sid = 1, !.vs = vs]

\* an EXTDATA payload announcing a packet of the given type
ExtDataMsg(type) == [Msg("object") EXCEPT !.msg = [type |-> type, arg2 |-> 0]]

\* the packets a server sends in SpecDispatch: one or more of every case of
\* _packetReceived
DispatchPackets ==
  {Packet("NULL", 0, 0, 0, 0, 0, Msg("undefined"), Undefined)}
  \cup {Packet(t, x[1], 0, 0, x[2], 0, Msg("undefined"), Undefined) :
          t \in StateClass \ {"SESSIONSTATE"},
          x \in {<<0, RoomHelperMin>>, <<TOKENINC, PART>>}}
  \cup {Packet("LOGIN", 0, 1, a, 0, 0, Msg(k), Undefined) :
          a \in 0 .. 1, k \in {"undefined", "string"}}
  \cup {Packet("SESSIONSTATE", 0, 0, 0, 0, 0, StateOfModel(vs), Undefined) :
          vs \in {Offline, Online}}
  \cup {Packet("TAGS", 0, 0, 0, 0, 0, [Msg("object") EXCEPT !.keys = {1}],
               Undefined)}
  \cup {Packet("BOOKMARKS", 0, 0, 0, 0, 0, m, Undefined) :
          m \in {Msg("undefined"), [Msg("object") EXCEPT !.keys = {1}]}}
  \cup {Packet("ROOMDATA", 0, 0, 0, 0, 0, [Msg("array") EXCEPT !.keys = {1}],
               Undefined)}
  \cup {Packet("EXTDATA", 0, to, 0, REDIS_JSON, 0, ExtDataMsg(t), Undefined) :
          to \in 0 .. 1, t \in {"SESSIONSTATE", "LOGIN"}}

\* what an EXTDATA fetch returns
FetchedContents == {StateOfModel(Offline), StateOfModel(Online)}

StepDispatch(c) ==
  \/ \E d \in BOOLEAN : Connect(c, d)
  \/ \E d, ok \in BOOLEAN : HttpDone(c, d, ok)
  \/ \E s \in SockIds : SockOpen(c, s)
  \/ \E s \in SockIds : SockClose(c, s)
  \/ \E s \in SockIds, p \in DispatchPackets : RecvPacket(c, s, p)
  \/ \E i \in 1 .. MaxFetches, ok \in BOOLEAN, m \in FetchedContents :
       ExtDataDone(c, i, ok, m)

SpecDispatch == InitFacade /\ [][StepDispatch(1)]_vars

\* ------------------------------------------------- claims C21, C22

\* C21: packets are dispatched in strict arrival order, the side effects and
\* events of a packet being complete before a later packet of the connection
\* is dispatched: no packet is dispatched while the handler of an earlier
\* packet is suspended (here: _handleExtData awaiting its fetch)
C21_NoDispatchWhileSuspended ==
  [][\A c \in Clients, s \in SockIds, p \in DispatchPackets :
       RecvPacket(c, s, p) => extData[c] = <<>>]_vars

\* the events of a dispatched packet of type t in the trace o of a step:
\* one event t, one event ANY, t before ANY, every merge before both
EventsOf(o, t) ==
  \E i, j \in 1 .. Len(o) :
    /\ i < j
    /\ o[i].ev = t
    /\ o[j].ev = "ANY"
    /\ \A k \in 1 .. Len(o) :
         /\ o[k].ev = t => k = i
         /\ o[k].ev = "ANY" => k = j
         /\ o[k].ev \in {"MERGE", "MERGETAGS"} => k < i

\* C22: for every dispatched packet exactly one event named after its type
\* and exactly one ANY event are emitted, the type-named event first, and
\* both after the handler's side effects
C22_OneTypeEventThenAny ==
  [][/\ \A c \in Clients, s \in SockIds, p \in DispatchPackets :
          RecvPacket(c, s, p) => EventsOf(out', p.FCType)
     /\ \A c \in Clients, i \in 1 .. MaxFetches, m \in FetchedContents :
          ExtDataDone(c, i, TRUE, m) => EventsOf(out', extData[c][i].msg.type)
    ]_vars

\* ------------------------------------------------- the wire: frames

\* bounds: the frames a server sends on a connection, the characters of a
\* frame's payload
MaxFrames == 2
MaxPayload == 1

\* the first int32 of every binary frame (Client.ts:519)
MAGIC == -2027771214

\* constants.FCTYPE[n], for the packet types the wire specification sends
FCTYPE(n) == CASE n = 0 -> "NULL" [] n = 1 -> "LOGIN" [] OTHER -> "UNKNOWN"

\* the UTF-8 bytes of the characters a payload is made of
Utf8 == ("7" :> 55) @@ ("a" :> 97)

\* buf.writeInt32BE(n): the four bytes of n in two's complement
WriteInt32BE(n) ==
  <<(n \div 2 ^ 24) % 256, (n \div 2 ^ 16) % 256, (n \div 2 ^ 8) % 256,
    n % 256>>

\* buf.readInt32BE(pos), buf holding the four bytes
ReadInt32BE(buf, pos) ==
  (IF buf[pos + 1] >= 128 THEN buf[pos + 1] - 256 ELSE buf[pos + 1]) * 2 ^ 24
  + buf[pos + 2] * 2 ^ 16 + buf[pos + 3] * 2 ^ 8 + buf[pos + 4]

\* JSON.parse(text), or the raw text when it is no JSON; nothing for no text
ParseMessage(text) ==
  IF text = <<>> THEN Msg("undefined")
  ELSE [Msg(IF \A i \in 1 .. Len(text) : text[i] = "7"
            THEN "number" ELSE "string")
          EXCEPT !.text = text]

\* the frames a server sends: f.magic is MAGIC in a well-formed frame;
\* negative arguments occur in the binary dialect only; a NULL frame, a
\* malformed frame, LOGIN frames that accept or reject the login
Frames(ws) ==
  {f \in [magic : {MAGIC, 1}, fcType : 0 .. 1, nFrom : {0}, nTo : {258},
           nArg1 : {0, 1}, nArg2 : {IF ws THEN 0 ELSE -1},
           payload : UNION {[1 .. n -> DOMAIN Utf8] : n \in 0 .. MaxPayload}] :
     /\ f.fcType = 0 \/ f.nArg1 # 0 => f.payload = <<>>
     /\ f.fcType = 0 => f.nArg1 = 0
     /\ f.magic # MAGIC => f.fcType = 0}

\* the packet a well-formed frame stands for
PacketOf(f) ==
  Packet(FCTYPE(f.fcType), f.nFrom, f.nTo, f.nArg1, f.nArg2, Len(f.payload),
         ParseMessage(f.payload), Undefined)

\* _readPacket(): parse the frames of streamBuffer from streamPosition on
RECURSIVE ReadPacket(_, _, _)
ReadPacket(w, c, s) ==
  LET buf == w.streamBuffer[c]
      pos == w.streamPosition[c]
      Word(i) == ReadInt32BE(buf, pos + 4 * i)
      sPayload == Word(6)
      end == pos + 28 + (IF sPayload > 0 THEN sPayload ELSE 0)
      strParam == [i \in 1 .. end - pos - 28 |->
                     CHOOSE ch \in DOMAIN Utf8 : Utf8[ch] = buf[pos + 28 + i]]
      packet == Packet(FCTYPE(Word(1)), Word(2), Word(3), Word(4), Word(5),
                       sPayload, ParseMessage(strParam), Undefined)
      w1 == PacketReceived([w EXCEPT !.dispatched[c] = Append(@, packet)],
                           c, s, packet)
  IN CASE pos + 28 > Len(buf) -> w
       [] Word(0) # MAGIC -> Throw(Say(w, "INVALID_PACKET", c), c)
       [] end > Len(buf) -> w
       [] Threw(w1) -> w1
       [] end < Len(buf) ->
            ReadPacket([w1 EXCEPT !.streamPosition[c] = end], c, s)
       [] OTHER ->
            [w1 EXCEPT !.streamBuffer[c] = <<>>, !.streamPosition[c] = 0]

\* ------------------------------------------------- the wire: text dialect

Digit == <<"0", "1", "2", "3", "4", "5", "6", "7", "8", "9">>
IsDigit(ch) == \E d \in 1 .. 10 : Digit[d] = ch

\* the decimal digits of n >= 0
RECURSIVE Decimal(_)
Decimal(n) ==
  IF n < 10 THEN <<Digit[n + 1]>>
  ELSE Append(Decimal(n \div 10), Digit[(n % 10) + 1])

\* the characters or bytes of frame f as the server writes it: the seven
\* int32 and the payload (binary), or the four-digit length of the body and
\* the body (text); a malformed frame has another first int32, or a length
\* tag that is no number
EncodeFrame(f, ws) ==
  LET sp == <<" ">>
      body == Decimal(f.fcType) \o sp \o Decimal(f.nFrom) \o sp
              \o Decimal(f.nTo) \o sp \o Decimal(f.nArg1) \o sp
              \o Decimal(f.nArg2)
              \o (IF f.payload = <<>> THEN <<>> ELSE sp \o f.payload)
      n == Len(body)
      tag == <<IF f.magic = MAGIC THEN Digit[((n \div 1000) % 10) + 1] ELSE "x",
               Digit[((n \div 100) % 10) + 1], Digit[((n \div 10) % 10) + 1],
               Digit[(n % 10) + 1]>>
  IN IF ws THEN tag \o body
     ELSE WriteInt32BE(f.magic) \o WriteInt32BE(f.fcType)
          \o WriteInt32BE(f.nFrom) \o WriteInt32BE(f.nTo)
          \o WriteInt32BE(f.nArg1) \o WriteInt32BE(f.nArg2)
          \o WriteInt32BE(Len(f.payload))
          \o [i \in 1 .. Len(f.payload) |-> Utf8[f.payload[i]]]

\* parseInt(chars, 10): the number its leading digits spell; NaN, here
\* Undefined, when it starts with no digit. acc is the number read so far
RECURSIVE ParseInt(_, _)
ParseInt(chars, acc) ==
  IF chars = <<>> \/ ~IsDigit(Head(chars)) THEN acc
  ELSE ParseInt(Tail(chars),
                (IF acc = Undefined THEN 0 ELSE acc) * 10
                + (CHOOSE d \in 0 .. 9 : Digit[d + 1] = Head(chars)))

\* the number of digits buf has from index i on
RECURSIVE DigitRun(_, _)
DigitRun(buf, i) ==
  IF i <= Len(buf) /\ IsDigit(buf[i]) THEN 1 + DigitRun(buf, i + 1) ELSE 0

\* Client.webSocketNoiseFilter.test(buf): /^\d{4}\d+ \d+ \d+ \d+ \d+/
NoiseFilter(buf) ==
  LET r1 == DigitRun(buf, 1)
      i2 == r1 + 2
      r2 == DigitRun(buf, i2)
      i3 == i2 + r2 + 1
      r3 == DigitRun(buf, i3)
      i4 == i3 + r3 + 1
      r4 == DigitRun(buf, i4)
      i5 == i4 + r4 + 1
      Space(i) == i <= Len(buf) /\ buf[i] = " "
  IN /\ r1 >= 5 /\ Space(i2 - 1)
     /\ r2 >= 1 /\ Space(i3 - 1)
     /\ r3 >= 1 /\ Space(i4 - 1)
     /\ r4 >= 1 /\ Space(i5 - 1)
     /\ DigitRun(buf, i5) >= 1

\* chars.split(" "): the pieces between the spaces
RECURSIVE Split(_)
Split(chars) ==
  IF \A i \in 1 .. Len(chars) : chars[i] # " " THEN <<chars>>
  ELSE LET i == CHOOSE j \in 1 .. Len(chars) :
                  chars[j] = " " /\ \A k \in 1 .. j - 1 : chars[k] # " "
       IN <<SubSeq(chars, 1, i - 1)>> \o Split(SubSeq(chars, i + 1, Len(chars)))

\* _readWebSocketPacket(): parse the frames of streamWebSocketBuffer
RECURSIVE ReadWebSocketPacket(_, _, _)
ReadWebSocketPacket(w, c, s) ==
  LET buf == w.streamWebSocketBuffer[c]
      messageLength == ParseInt(SubSeq(buf, 1, 4), Undefined)
      body == SubSeq(buf, 5, Len(buf))
      currentMessage == SubSeq(body, 1, IF messageLength < Len(body)
                                        THEN messageLength ELSE Len(body))
      pieces == Split(currentMessage)
      Piece(i) == IF i <= Len(pieces) THEN ParseInt(pieces[i], Undefined)
                  ELSE Undefined
      Width(i) == IF i <= Len(pieces) THEN Len(pieces[i]) ELSE 0
      intParamsLength == Width(1) + Width(2) + Width(3) + Width(4) + Width(5) + 5
      payload == SubSeq(currentMessage, intParamsLength + 1, Len(currentMessage))
      packet == Packet(FCTYPE(Piece(1)), Piece(2), Piece(3), Piece(4), Piece(5),
                       Len(payload), ParseMessage(payload), Undefined)
      w1 == [w EXCEPT !.streamWebSocketBuffer[c] =
                         SubSeq(body, messageLength + 1, Len(body)),
                      !.dispatched[c] = Append(@, packet)]
      w2 == PacketReceived(w1, c, s, packet)
  IN CASE Len(buf) <= 4 -> w
       [] ~NoiseFilter(buf) ->
            ReadWebSocketPacket(
              [w EXCEPT !.streamWebSocketBuffer[c] = Tail(buf)], c, s)
       [] messageLength = Undefined ->
            Throw(Say(w, "INVALID_PACKET", c), c)
       [] Len(buf) < messageLength -> w
       [] Threw(w2) -> w2
       [] OTHER -> ReadWebSocketPacket(w2, c, s)

\* ------------------------------------------------- the wire: the socket

\* the server writes frame f to the connection
ServerSend(c, s, f) ==
  /\ sock[c][s].st = "open"
  /\ f \in Frames(useWebSockets[c])
  /\ Len(sentFrames[c]) < MaxFrames
  /\ Commit([Cur EXCEPT !.sentFrames[c] = Append(@, f),
                        !.wire[c] = @ \o EncodeFrame(f, useWebSockets[c])])

\* the socket's 'data' or 'message' listener: _readData(buf) or
\* _readWebSocketData(buf), buf being the next n bytes or characters
SockData(c, s, n) ==
  /\ ~MicroPending
  /\ sock[c][s].st \in {"open", "closing"}
  /\ n \in 1 .. Len(wire[c])
  /\ LET buf == SubSeq(wire[c], 1, n)
         w == [Cur EXCEPT !.wire[c] = SubSeq(@, n + 1, Len(@))]
     IN Commit(IF useWebSockets[c]
               THEN ReadWebSocketPacket(
                      [w EXCEPT !.streamWebSocketBuffer[c] = @ \o buf], c, s)
               ELSE ReadPacket([w EXCEPT !.streamBuffer[c] = @ \o buf], c, s))

\* the longest frame of the wire specification
MaxChunk == 28 + MaxPayload

StepWire(c) ==
  \/ \E d \in BOOLEAN : Connect(c, d)
  \/ \E d, ok \in BOOLEAN : HttpDone(c, d, ok)
  \/ \E s \in SockIds : SockOpen(c, s)
  \/ \E s \in SockIds, f \in Frames(TRUE) \cup Frames(FALSE) :
       ServerSend(c, s, f)
  \/ \E s \in SockIds, n \in 1 .. MaxFrames * MaxChunk : SockData(c, s, n)

SpecWire == InitFacade /\ [][StepWire(1)]_vars

\* ------------------------------------------------- claims C23 .. C25

\* what the server has written to the connection of client c so far
RECURSIVE Stream(_, _)
Stream(frames, ws) ==
  IF frames = <<>> THEN <<>>
  ELSE Stream(SubSeq(frames, 1, Len(frames) - 1), ws)
       \o EncodeFrame(frames[Len(frames)], ws)

WellFormed(frames) == \A i \in 1 .. Len(frames) : frames[i].magic = MAGIC

\* how much of the stream the socket has delivered to client c
Delivered(c) == Len(Stream(sentFrames[c], useWebSockets[c])) - Len(wire[c])

\* the frames of client c whose last byte or character has been delivered
Complete(c) ==
  {i \in 1 .. Len(sentFrames[c]) :
     Len(Stream(SubSeq(sentFrames[c], 1, i), useWebSockets[c])) <= Delivered(c)}

\* the packets of the complete frames, in order, are what was dispatched,
\* and what was delivered of an incomplete frame is still in the buffer
FramesDispatched(c, unread) ==
  LET k == Cardinality(Complete(c))
  IN /\ dispatched[c] = [i \in 1 .. k |-> PacketOf(sentFrames[c][i])]
     /\ unread = Delivered(c)
                 - Len(Stream(SubSeq(sentFrames[c], 1, k), useWebSockets[c]))

\* C23: binary dialect: however a stream of well-formed frames is cut into
\* chunks, the packets dispatched are exactly the frames whose last byte has
\* arrived, once each and in order, and an incomplete frame consumes no input
C23_BinaryFramesOnceInOrder ==
  \A c \in Clients :
    ~useWebSockets[c] /\ WellFormed(sentFrames[c]) =>
      FramesDispatched(c, Len(streamBuffer[c]) - streamPosition[c])

\* C24: text dialect: a frame split across deliveries is buffered until it
\* is complete and then yields one packet with the frame's fields; before
\* its last character has arrived no packet of it is dispatched and none of
\* its characters are discarded
C24_TextFramesBuffered ==
  \A c \in Clients :
    useWebSockets[c] /\ WellFormed(sentFrames[c]) =>
      FramesDispatched(c, Len(streamWebSocketBuffer[c]))

IdSlack == 5

\* constants.CHANNEL.ID_START, constants.SESSCHAN.ID_START and
\* constants.CAMCHAN.ID_START
ID_START ==
  [CHANNEL |-> 100000000, SESSCHAN |-> 200000000, CAMCHAN |-> 400000000]

\* as toUserId, but an id of the CamYou band is not recognised
toUserIdNoCamChan(id) ==
  CASE id >= 1000000000 -> id - 1000000000
    [] id >= 300000000 -> id - 300000000
    [] id >= ID_START.SESSCHAN -> id - ID_START.SESSCHAN
    [] id >= ID_START.CHANNEL -> id - ID_START.CHANNEL
    [] OTHER -> id

\* Client.toUserId(id)
toUserId(id) ==
  CASE id >= 1000000000 -> id - 1000000000
    [] id >= ID_START.CAMCHAN -> id - ID_START.CAMCHAN
    [] id >= 300000000 -> id - 300000000
    [] id >= ID_START.SESSCHAN -> id - ID_START.SESSCHAN
    [] id >= ID_START.CHANNEL -> id - ID_START.CHANNEL
    [] OTHER -> id

\* Client.toRoomId(id, camYou)
toRoomId(id, camYouArg) ==
  LET publicRoomId == IF camYouArg THEN ID_START.CAMCHAN ELSE ID_START.CHANNEL
  IN IF id < publicRoomId THEN id + publicRoomId ELSE id

\* the first ids of the bands, and the ids around each of them
BandStarts ==
  {0, ID_START.CHANNEL, ID_START.SESSCHAN, 300000000, ID_START.CAMCHAN,
   1000000000}

Ids == {b + d : b \in BandStarts, d \in (0 - IdSlack) .. IdSlack} \cap Nat

\* joinRoom(id): the room id and the model id are computed, the listeners are
\* registered and JOINCHAN is sent for the room id
JoinRoomIds(c, id) ==
  /\ joinListeners[c] = {}
  /\ Commit([JoinRoomCall(Cur, c, toUserId(id)) EXCEPT
               !.joinIds[c] = [id |-> id,
                               roomId |-> toRoomId(id, camYou[c]),
                               modelId |-> toUserId(id)]])

\* one client of either site, connecting and joining one room
InitIds ==
  /\ useWebSockets = [c \in Clients |-> TRUE]
  /\ connectionTimeout = [c \in Clients |-> FALSE]
  /\ sockLimit = MaxSocketsMulti
  /\ camYou \in [Clients -> BOOLEAN]
  /\ listCall = NoCall
  /\ Constructed

StepIds(c) ==
  \/ \E d \in BOOLEAN : Connect(c, d)
  \/ \E d, ok \in BOOLEAN : HttpDone(c, d, ok)
  \/ \E s \in SockIds : SockOpen(c, s)
  \/ \E id \in Ids : JoinRoomIds(c, id)

SpecIds == InitIds /\ [][StepIds(1)]_vars

\* ------------------------------------------------- claims C26, C27

\* the ids of the user band
UserBand == 0 .. ID_START.CHANNEL - 1

\* C26: for every id x given to joinRoom, of the user band or of any room
\* band, the room id of x's user id is the room id of x:
\* toRoomId(toUserId(x)) = toRoomId(x).
C26_RoomIdOfUserIdIsRoomId ==
  \A c \in Clients :
    joinIds[c] # NoJoin =>
      toRoomId(joinIds[c].modelId, FALSE) = toRoomId(joinIds[c].id, FALSE)

MaxUid == 2

\* the session states a server reports of uid 1, with or without the level
\* of a model
StatePayloads ==
  {[Msg("object") EXCEPT !.lv = lv, !.uid = 1, !.sid = sid, !.vs = vs,
                         !.camscore = cs] :
     lv \in {Absent, LvModel},
     sid \in 1 .. MaxSid,
     vs \in {Absent, Offline, Online},
     cs \in {Undefined} \cup 1 .. MaxCamScore}

\* session states of a user who is no model, that name no user, or that
\* name the user by the session id
OtherPayloads ==
  {[Msg("object") EXCEPT !.lv = lv, !.uid = uid, !.sid = 1, !.vs = Online] :
     lv \in {Absent, LvModel, LvOther}, uid \in {Undefined, -1, 0}}
  \cup {[Msg("object") EXCEPT !.lv = LvOther, !.uid = 1, !.sid = 1,
                              !.vs = Online],
        [Msg("object") EXCEPT !.lv = LvModel, !.uid = 1, !.vs = Online],
        Msg("undefined")}

\* the payloads of the packets that may be skipped: a session of uid 1
SkipPayloads ==
  {[Msg("object") EXCEPT !.lv = lv, !.uid = 1, !.sid = MaxSid,
                         !.vs = Online] : lv \in {LvModel, LvOther}}

\* the entries of a TAGS, BOOKMARKS or ROOMDATA payload, of a list
UidSets == (SUBSET (1 .. MaxUid)) \ {{}}

\* the packets a server sends in SpecRegistry: state-class packets, skipped
\* or not, and the packets whose payload has an entry per model
RegistryPackets ==
  {Packet("SESSIONSTATE", 0, 0, 0, 0, 0, m, Undefined) : m \in StatePayloads}
  \cup {Packet("SESSIONSTATE", 0, 0, 0, 0, 0, m, about) :
          m \in OtherPayloads, about \in {Undefined, 1}}
  \cup {Packet("DETAILS", from, 0, 0, 0, 0, m, Undefined) :
          from \in {0, TOKENINC}, m \in SkipPayloads}
  \cup {Packet("ROOMHELPER", 0, 0, 0, a, 0, m, Undefined) :
          a \in {RoomHelperMin - 1, RoomHelperMin}, m \in SkipPayloads}
  \cup {Packet("JOINCHAN", 0, 0, 0, a, 0, m, Undefined) :
          a \in {PART - 1, PART}, m \in SkipPayloads}
  \cup {Packet("TAGS", 0, 0, 0, 0, 0, [Msg("object") EXCEPT !.keys = k],
               Undefined) : k \in UidSets}
  \cup {Packet("BOOKMARKS", 0, 0, 0, 0, 0, [Msg("object") EXCEPT !.keys = k],
               Undefined) : k \in UidSets}
  \cup {Packet("ROOMDATA", 0, 0, 0, 0, 0, [Msg(kind) EXCEPT !.keys = k],
               Undefined) : kind \in {"object", "array"}, k \in UidSets}
  \cup {Packet("MANAGELIST", 0, 0, 0, 20, 0,
               [Msg("object") EXCEPT !.keys = k, !.rdata = "object"],
               Undefined) : k \in UidSets}
  \cup {Packet("MANAGELIST", 0, 0, 0, 21, 0,
               [Msg("object") EXCEPT !.keys = {1}, !.rdata = "array",
                                     !.lv = lv],
               Undefined) : lv \in {LvModel, LvOther}}
  \cup {Packet("MANAGELIST", 0, 0, 0, 1, 0,
               [Msg("object") EXCEPT !.keys = {0}, !.rdata = "array",
                                     !.lv = LvModel, !.sid = 1, !.vs = Online],
               Undefined)}

StepRegistry(c) ==
  \/ Connect(c, TRUE)
  \/ \E d, ok \in BOOLEAN : HttpDone(c, d, ok)
  \/ \E s \in SockIds : SockOpen(c, s)
  \/ \E s \in SockIds, p \in RegistryPackets : RecvPacket(c, s, p)

SpecRegistry == InitLists /\ [][StepRegistry(1)]_vars

\* the state-class packets of SpecRegistry that are not skipped
NotSkipped == {p \in RegistryPackets : p.FCType \in StateClass /\ ~Skipped(p)}

\* a server that sends state-class packets only
StepStates(c) ==
  \/ Connect(c, TRUE)
  \/ \E d, ok \in BOOLEAN : HttpDone(c, d, ok)
  \/ \E s \in SockIds : SockOpen(c, s)
  \/ \E s \in SockIds, p \in RegistryPackets :
       p.FCType \in StateClass /\ RecvPacket(c, s, p)

SpecStates == InitLists /\ [][StepStates(1)]_vars

\* ------------------------------------------------- claims C28 .. C30

MergedOnlyForModels(c, p) ==
  /\ Did(out', "MERGE", c) => p.sMessage.lv \in {Absent, LvModel}
  /\ DOMAIN knownModels' # DOMAIN knownModels => p.sMessage.lv = LvModel
  /\ p.sMessage.lv \notin {Absent, LvModel} => knownModels' = knownModels

\* C29: the payload of a state-class packet that is not skipped is merged
\* only when its lv is MODEL or absent; a model is created only when its lv
\* is MODEL; with lv absent no model is created; with any other lv the
\* registry is left unchanged.
C29_StateMergedOnlyForModels ==
  [][\A c \in Clients, s \in SockIds, p \in NotSkipped :
       MergedOnlyForModels(c, p) \/ ~RecvPacket(c, s, p)]_vars

\* a state-class packet was merged into model 1, which has a session 1, while
\* no other model is known
C29_Witness ==
  /\ Did(out, "MERGE", 1)
  /\ Did(out, "SESSIONSTATE", 1)
  /\ DOMAIN knownModels = {1}
  /\ 1 \in DOMAIN knownModels[1].sessions

\* the packets of SpecRegistry whose payload has an entry per model
PerModelPackets ==
  {p \in RegistryPackets :
     \/ p.FCType \in {"TAGS", "BOOKMARKS", "ROOMDATA"}
     \/ p.FCType = "MANAGELIST" /\ FCL[p.nArg2] = "TAGS"}

\* C30: dispatching a TAGS packet, a MANAGELIST TAGS list, a BOOKMARKS packet
\* or a ROOMDATA packet leaves the set of known model uids unchanged.
C30_PerModelPacketsAddNoModel ==
  [][\A c \in Clients, s \in SockIds, p \in PerModelPackets :
       RecvPacket(c, s, p) => DOMAIN knownModels' = DOMAIN knownModels]_vars

\* ------------------------------------------------- claims C31 .. C40

\* C39: whenever a client is IDLE its manual-disconnect flag is false, so a
\* disconnect() of one connection does not suppress the reconnect of a later
\* one.
C39_IdleHasNoManualFlag ==
  \A c \in Clients : state[c] = IDLE => ~manualDisconnect[c]

\* a disconnect() of an ACTIVE client has completed: the flag was set, the
\* connection was closed and the client is IDLE, its promise resolved
C39_Witness ==
  /\ state[1] = IDLE
  /\ quiesced[1] = "ACTIVE"
  /\ Did(out, "CLIENT_DISCONNECTED", 1)

\* C40: a login-timeout timer armed for one connection never fires during a
\* later connection: when the timer armed on socket s fires while the client
\* has a connection, that connection is socket s.
C40_LoginTimerFiresOnItsConnection ==
  [][\A c \in Clients, s \in SockIds :
       LoginTimerFire(c, s) /\ client[c] # 0 => client[c] = s]_vars

\* the client has sent LOGIN on its current connection and _disconnected has
\* not run for that connection
LoggedIn(c) ==
  /\ state[c] # IDLE
  /\ client[c] # 0
  /\ sock[c][client[c]].doLogin
  /\ sock[c][client[c]].st \in {"open", "closing", "halfdead", "closed"}

\* C35: the process-wide count _connectedClientCount equals the number of
\* clients that have sent LOGIN on their current connection and have not been
\* disconnected.
C35_CountIsLoggedInClients ==
  connectedClientCount = Cardinality({c \in Clients : LoggedIn(c)})

\* the sockets of client c that are connecting or connected and that nothing
\* has asked to close
LiveSockets(c) == {s \in SockIds : sock[c][s].st \in {"connecting", "open"}}

\* C36: at any time a client has at most one live socket, at most one
\* keepalive interval and at most one pending reconnect timer, and a
\* reconnect timer is pending only while the client is PENDING.
C36_OneSocketOneIntervalOneTimer ==
  \A c \in Clients :
    /\ Cardinality(LiveSockets(c)) <= 1
    /\ intervals[c] <= 1
    /\ reconnectTimer[c] # 0 => state[c] = PENDING

\* C38: once a joinRoom or queryUser promise has settled, and in particular
\* when the call was made on a client that is not connected and was rejected,
\* none of the listeners the call registered remain: a listener is registered
\* only for a promise that is pending.
C38_NoListenerOfSettledPromise ==
  \A c \in Clients :
    /\ joinListeners[c] \subseteq joinPending[c]
    /\ queryListeners[c] \subseteq queryPending[c]

\* C37: no packet is dispatched for a client that is not ACTIVE: a step that
\* merges into the registry or emits a packet event on behalf of a client,
\* the completion of an EXTDATA fetch included, starts with that client ACTIVE.
C37_DispatchOnlyWhileActive ==
  [][\A c \in Clients :
       Did(out', "MERGE", c) \/ Did(out', "MERGETAGS", c) \/ Did(out', "ANY", c)
         => state[c] = ACTIVE]_vars

\* the packet types that refresh the timestamp of the last state packet
WatchdogTypes ==
  {"DETAILS", "ROOMHELPER", "SESSIONSTATE", "ADDFRIEND", "ADDIGNORE", "CMESG",
   "PMESG", "TXPROFILE", "USERNAMELOOKUP", "MYCAMSTATE", "MYWEBCAM", "JOINCHAN"}

\* C33: every received packet refreshes _lastPacketTime; _lastStatePacketTime
\* is refreshed by the packets of the twelve state-class types, skipped or
\* not, and by the packets of no other type.
C33_StateStampByStateClassOnly ==
  [][\A c \in Clients, s \in SockIds, p \in DispatchPackets :
       \/ /\ Did(out', "_lastPacketTime", c)
          /\ Did(out', "_lastStatePacketTime", c) <=> p.FCType \in WatchdogTypes
       \/ ~RecvPacket(c, s, p)]_vars

\* a JOINCHAN packet was dispatched and refreshed the timestamp of the last
\* state packet while the registry stayed empty
C33_Witness ==
  /\ Did(out, "JOINCHAN", 1)
  /\ Did(out, "_lastStatePacketTime", 1)
  /\ knownModels = <<>>

\* ------------------------------------------------- guest logins

\* the answer of a server to the LOGIN of a guest: nArg1 is 0 and the payload
\* is the name the server assigned
LoginPackets == {Packet("LOGIN", 0, 1, 0, 0, 0, Msg("string"), Undefined)}

\* a guest client that logs in, loses its connections and reconnects
StepLogin(c) ==
  \/ Connect(c, TRUE)
  \/ Disconnect(c)
  \/ \E d, ok \in BOOLEAN : HttpDone(c, d, ok)
  \/ ReconnectFire(c)
  \/ \E s \in SockIds : LoginTimerFire(c, s)
  \/ \E silent, stateSilent \in BOOLEAN : KeepAliveTick(c, silent, stateSilent)
  \/ \E s \in SockIds : SockOpen(c, s)
  \/ \E s \in SockIds : SockError(c, s)
  \/ \E s \in SockIds : SockClose(c, s)
  \/ \E s \in SockIds, p \in LoginPackets : RecvPacket(c, s, p)

SpecLogin == InitLists /\ [][StepLogin(1)]_vars

\* C34: every LOGIN command a guest client sends carries the username "guest":
\* when login() sends LOGIN, the username is "guest", whatever logins and
\* disconnections came before.
C34_GuestLogsInAsGuest ==
  [][\A c \in Clients : Did(out', "TX_LOGIN", c) => username[c] = "guest"]_vars

\* C31: every session state held in the registry under model U that has a
\* uid has the uid U or 0, after any packets the dispatcher merged
\* (state-class packets, BOOKMARKS, MANAGELIST lists, ROOMDATA), payloads and
\* list records with uid 0 and a positive sid included.
C31_SessionUidIsModelUid ==
  \A u \in DOMAIN knownModels :
    \A s \in DOMAIN knownModels[u].sessions :
      knownModels[u].sessions[s].uid \in {u, 0, Undefined}

\* ------------------------------------------------- processListData

\* bounds: the elements of a schema, the values of a record, the records of
\* a list and the largest value
MaxSchema == 2
MaxRecord == 3
MaxRecords == 2
MaxValue == 2

\* the property names of a schema: top-level ones and those of a bag
TopProps == {"uid", "m"}
BagKeys == {"m"}
BagProps == {"rc", "nm"}

SeqsUpTo(S, lo, hi) == UNION {[1 .. n -> S] : n \in lo .. hi}

\* an element of a schema: a string, or an object with one key whose value
\* is an array of strings or (isArray FALSE) something else; an object with
\* several keys contributes what one object per key contributes
SchemaElems ==
  {[t |-> "string", prop |-> n, props |-> <<>>, isArray |-> FALSE] :
     n \in TopProps}
  \cup {[t |-> "object", prop |-> k, props |-> ps, isArray |-> TRUE] :
          k \in BagKeys, ps \in SeqsUpTo(BagProps, 1, 2)}
  \cup {[t |-> "object", prop |-> k, props |-> <<>>, isArray |-> FALSE] :
          k \in BagKeys}

\* rdata[0]: an array of schema elements, or something that is no array
Schemas ==
  {[kind |-> "array", items |-> e] : e \in SeqsUpTo(SchemaElems, 0, MaxSchema)}
  \cup {[kind |-> "object", items |-> <<>>]}

\* a record: an array of values, or something that is no array
Records ==
  {[kind |-> "array", items |-> v] :
     v \in SeqsUpTo(1 .. MaxValue, 0, MaxRecord)}
  \cup {[kind |-> "object", items |-> <<>>]}

\* the arguments of processListData: an FCTypeTagsResponse, an empty array,
\* or a schema followed by records
ListInputs ==
  {[kind |-> "object", items |-> <<>>], [kind |-> "array", items |-> <<>>]}
  \cup {[kind |-> "array", items |-> <<s>> \o r] :
          s \in Schemas, r \in SeqsUpTo(Records, 0, MaxRecords)}

\* a property of a message: a value, or a bag of values
Val(v) == [kind |-> "value", v |-> v]
Bag(f) == [kind |-> "bag", props |-> f]

\* the schema map: a path <<prop>> per string, a path <<key, prop2>> per
\* string of an object's array
RECURSIVE SchemaMap(_)
SchemaMap(elems) ==
  IF elems = <<>> THEN <<>>
  ELSE LET e == Head(elems)
           paths == IF e.t = "string" THEN <<(<<e.prop>>)>>
                    ELSE [i \in 1 .. Len(e.props) |-> <<e.prop, e.props[i]>>]
       IN paths \o SchemaMap(Tail(elems))

\* as Assign, but a nested slot replaces its bag instead of adding to it
AssignReplacingBag(m, path, v) ==
  IF m.threw THEN m
  ELSE IF Len(path) = 1
  THEN [m EXCEPT !.msg = (path[1] :> Val(v)) @@ @]
  ELSE IF path[1] \in DOMAIN m.msg /\ m.msg[path[1]].kind # "bag"
  THEN [m EXCEPT !.threw = TRUE]
  ELSE [m EXCEPT !.msg = (path[1] :> Bag(path[2] :> v)) @@ @]

\* msg[path] = v; a property of a value that is no object cannot be
\* created (the module is compiled in strict mode: TypeError)
Assign(m, path, v) ==
  IF m.threw THEN m
  ELSE IF Len(path) = 1
  THEN [m EXCEPT !.msg = (path[1] :> Val(v)) @@ @]
  ELSE IF path[1] \notin DOMAIN m.msg
  THEN [m EXCEPT !.msg = (path[1] :> Bag(path[2] :> v)) @@ @]
  ELSE IF m.msg[path[1]].kind = "bag"
  THEN [m EXCEPT !.msg[path[1]] = Bag((path[2] :> v) @@ @.props)]
  ELSE [m EXCEPT !.threw = TRUE]

\* the loop over record[i], from index i on
RECURSIVE ApplySchema(_, _, _, _)
ApplySchema(schemaMap, vals, i, m) ==
  IF i > Len(vals) THEN m
  ELSE ApplySchema(schemaMap, vals, i + 1,
                   IF Len(schemaMap) >= i
                   THEN Assign(m, schemaMap[i], vals[i]) ELSE m)

EmptyMsg == [x \in {} |-> 0]

\* what is pushed on result for a record
Decode(schemaMap, record) ==
  IF record.kind = "array"
  THEN LET m == ApplySchema(schemaMap, record.items, 1,
                            [threw |-> FALSE, msg |-> EmptyMsg])
       IN [kind |-> IF m.threw THEN "threw" ELSE "msg", msg |-> m.msg]
  ELSE record

\* Client.processListData(rdata)
processListData(rdata) ==
  IF rdata.kind = "array" /\ Len(rdata.items) > 0
  THEN LET schema == Head(rdata.items)
           records == Tail(rdata.items)
           result == [j \in 1 .. Len(records) |->
                        Decode(SchemaMap(schema.items), records[j])]
       IN IF schema.kind # "array" THEN [kind |-> "array", items |-> <<>>]
          ELSE IF \E j \in 1 .. Len(result) : result[j].kind = "threw"
          THEN [kind |-> "threw", items |-> <<>>]
          ELSE [kind |-> "array", items |-> result]
  ELSE rdata

\* a call of processListData
ProcessListData ==
  /\ listCall.result = NoResult
  /\ Commit([Cur EXCEPT !.listCall.result = processListData(listCall.rdata)])

InitListData ==
  /\ useWebSockets = [c \in Clients |-> TRUE]
  /\ connectionTimeout = [c \in Clients |-> FALSE]
  /\ sockLimit = MaxSockets
  /\ camYou = [c \in Clients |-> FALSE]
  /\ listCall \in [rdata : ListInputs, result : {NoResult}]
  /\ Constructed

SpecListData == InitListData /\ [][ProcessListData]_vars

\* ------------------------------------------------- claim C32

\* processListData returned from a call with a schema and records
Decoded ==
  /\ listCall.result # NoResult
  /\ listCall.rdata.kind = "array"
  /\ Len(listCall.rdata.items) > 0
  /\ Head(listCall.rdata.items).kind = "array"

\* the flattened schema of the call
Slots == SchemaMap(Head(listCall.rdata.items).items)

\* the field of msg at a slot has the value v
FieldIs(msg, path, v) ==
  /\ path[1] \in DOMAIN msg
  /\ IF Len(path) = 1 THEN msg[path[1]] = Val(v)
     ELSE /\ msg[path[1]].kind = "bag"
          /\ path[2] \in DOMAIN msg[path[1]].props
          /\ msg[path[1]].props[path[2]] = v

\* msg has no field at a slot
FieldUnset(msg, path) ==
  \/ path[1] \notin DOMAIN msg
  \/ /\ Len(path) = 2
     /\ \/ msg[path[1]].kind # "bag"
        \/ path[2] \notin DOMAIN msg[path[1]].props

\* the paths of the fields of msg
Paths(msg) ==
  {<<n>> : n \in {x \in DOMAIN msg : msg[x].kind = "value"}}
  \cup UNION {{<<k, q>> : q \in DOMAIN msg[k].props} :
                k \in {x \in DOMAIN msg : msg[x].kind = "bag"}}

\* what C32 says of a record and the result at its position
RecordDecoded(record, item) ==
  IF record.kind # "array" THEN item = record
  ELSE LET n == IF Len(record.items) < Len(Slots)
                THEN Len(record.items) ELSE Len(Slots)
       IN /\ item.kind = "msg"
          /\ \A i \in 1 .. n : FieldIs(item.msg, Slots[i], record.items[i])
          /\ \A i \in n + 1 .. Len(Slots) : FieldUnset(item.msg, Slots[i])
          /\ Paths(item.msg) \subseteq {Slots[i] : i \in 1 .. n}

ListDecoded ==
  LET records == Tail(listCall.rdata.items)
      result == listCall.result
  IN /\ result.kind = "array"
     /\ Len(result.items) = Len(records)
     /\ \A j \in 1 .. Len(records) : RecordDecoded(records[j], result.items[j])

\* C32: processListData applied to [schema, r1, ..., rn] returns n results
\* in input order; of an array record the field at slot i of the flattened
\* schema is record[i] for every i below the lengths of the record and of
\* the slots, values beyond the slots are ignored, the fields of slots
\* without a value are unset; a record that is no array is passed through.
C32_ListDecodedBySchema == Decoded => ListDecoded

\* no two slots of the schema name the same field, and no top-level slot
\* names a bag of a nested slot
DistinctSlots ==
  \A i, j \in 1 .. Len(Slots) :
    i # j => /\ Slots[i] # Slots[j]
             /\ Len(Slots[i]) = 1 /\ Len(Slots[j]) = 2
                  => Slots[i][1] # Slots[j][1]

\* C32, amended: as C32 for a schema whose slots name pairwise distinct
\* fields, none of them a bag of a nested slot.
C32_ListDecodedByDistinctSlots == Decoded /\ DistinctSlots => ListDecoded

\* a schema with distinct slots, two of them in one bag, was applied to a
\* record with more values than slots and to one with fewer
C32_Witness ==
  /\ Decoded
  /\ DistinctSlots
  /\ listCall.result.kind = "array"
  /\ \E i, j \in 1 .. Len(Slots) :
       i # j /\ Len(Slots[i]) = 2 /\ Len(Slots[j]) = 2
  /\ \E j \in 2 .. Len(listCall.rdata.items) :
       /\ listCall.rdata.items[j].kind = "array"
       /\ Len(listCall.rdata.items[j].items) > Len(Slots)
  /\ \E j \in 2 .. Len(listCall.rdata.items) :
       /\ listCall.rdata.items[j].kind = "array"
       /\ Len(listCall.rdata.items[j].items) \in 1 .. Len(Slots) - 1

====
